---- MODULE Spec2Model ----
(***************************************************************************)
(* PDF knowledge assistant: the ingestion, query and extraction coded      *)
(* tools over the persisted vector store and the document registry.        *)
(* The order-fulfilment lookup tools over their static tables, and the     *)
(* Flask/Socket.IO interface of the assistant, are specified alongside.    *)
(*                                                                         *)
(* A Python string is a sequence of one-character strings.  An argument    *)
(* value is tagged with its Python type.  A tool's return value is a       *)
(* record of the message's segments: pre is the literal text up to and     *)
(* including a leading "Error:", msg the rest of the literal text, and     *)
(* path, n, exc, text, focus the interpolated values.                      *)
(***************************************************************************)
EXTENDS Integers, Sequences, FiniteSets, TLC

VARIABLES files, vstore, registry, now, last, wpc, wlocal, wentry, lk,
          thread, session, topics, web, updir, handlers, proc, calls

\* the state of the order-fulfilment lookup tools: their last call
lookupvars == <<lk>>

\* the state of the web interface: the process-wide conversation thread
\* and agent session, the topic memory file, the last request handled, and
\* whether the upload folder exists, the handlers that run at once, and
\* the server process
webvars == <<thread, session, topics, web, updir, handlers, proc>>

vars == <<files, vstore, registry, now, last, wpc, wlocal, wentry, lk,
          thread, session, topics, web, updir, handlers, proc, calls>>

----------------------------------------------------------------------------
(* Bounds *)

\* number of registry entries the ingestion tool may build in one run
MaxClock == 2
\* number of chunks one similarity search returns at most
TopK == 2
\* number of registry updates the concurrent writers may begin in one run
MaxWrites == 3
\* number of files the upload handler may store in one run
MaxUploads == 1
\* number of turns the agent may complete in one run
MaxTurns == 2
\* number of files stored when the server takes uploads only
MaxStored == 2
\* number of facts the external agent may commit to the topic memory
MaxFacts == 1

----------------------------------------------------------------------------
(* Strings and argument values *)

Str(s) == [t |-> "str", s |-> s]
None == [t |-> "none", s |-> <<>>]
List(s) == [t |-> "list", s |-> s]

\* Python truthiness of the values used as arguments
Falsy(v) == v.t = "none" \/ v.s = <<>>

ArgsGet(args, key, default) ==
    IF key \in DOMAIN args THEN args[key] ELSE default

NoArgs == [k \in {} |-> None]

UpperLetters == <<"A", "B", "C", "D", "E", "F", "G", "H", "I", "J", "K", "L", "M", "N", "O", "P", "Q", "R", "S", "T", "U", "V", "W", "X", "Y", "Z">>
LowerLetters == <<"a", "b", "c", "d", "e", "f", "g", "h", "i", "j", "k", "l", "m", "n", "o", "p", "q", "r", "s", "t", "u", "v", "w", "x", "y", "z">>

LowerChar(c) ==
    IF \E i \in 1..Len(UpperLetters) : UpperLetters[i] = c
    THEN LowerLetters[CHOOSE i \in 1..Len(UpperLetters) : UpperLetters[i] = c]
    ELSE c

UpperChar(c) ==
    IF \E i \in 1..Len(LowerLetters) : LowerLetters[i] = c
    THEN UpperLetters[CHOOSE i \in 1..Len(LowerLetters) : LowerLetters[i] = c]
    ELSE c

Upper(s) == [i \in 1..Len(s) |-> UpperChar(s[i])]

\* str.replace for one-character strings
Replace(s, old, new) == [i \in 1..Len(s) |-> IF s[i] = old THEN new ELSE s[i]]

Lower(s) == [i \in 1..Len(s) |-> LowerChar(s[i])]

EndsWith(s, suffix) ==
    /\ Len(s) >= Len(suffix)
    /\ SubSeq(s, Len(s) - Len(suffix) + 1, Len(s)) = suffix

DotPdf == <<".", "p", "d", "f">>

\* the characters str.strip() removes, those for which str.isspace()
\* holds: blank, \t, \n, \r, \f, the vertical tab, the separators
\* 0x1c-0x1f, 0x85, 0xa0 and 0x1680.  (The other Unicode spaces, from
\* 0x2000 on, cannot be written in a string of this language.)
Whitespace ==
    {" ", "\t", "\n", "\r", "\f"}
        \cup {"", "", "", "", "", "", " ", " "}

IsSpace(c) == c \in Whitespace

RECURSIVE LStrip(_)
LStrip(s) ==
    IF s # <<>> /\ IsSpace(Head(s)) THEN LStrip(Tail(s)) ELSE s

RECURSIVE RStrip(_)
RStrip(s) ==
    IF s # <<>> /\ IsSpace(s[Len(s)]) THEN RStrip(SubSeq(s, 1, Len(s) - 1)) ELSE s

Strip(s) == RStrip(LStrip(s))

RECURSIVE Join(_, _)
Join(sep, parts) ==
    IF parts = <<>> THEN <<>>
    ELSE IF Len(parts) = 1 THEN parts[1]
    ELSE parts[1] \o sep \o Join(sep, Tail(parts))

\* os.path.basename: what follows the last "/"
Basename(p) ==
    LET slashes == {i \in 1..Len(p) : p[i] = "/"}
        cut == IF slashes = {} THEN 0
               ELSE CHOOSE i \in slashes : \A j \in slashes : j <= i
    IN SubSeq(p, cut + 1, Len(p))

----------------------------------------------------------------------------
(* The file system the tools look at *)

PathA == <<"u", "/", "a", ".", "p", "d", "f">>
PathB == <<"u", "/", "b", ".", "P", "D", "F">>
PathG == <<"u", "/", "g", ".", "p", "d", "f">>
PathD == <<"d", ".", "p", "d", "f">>
PathC == <<"c", ".", "t", "x", "t">>
PathE == <<"e", ".", "p", "d", "f">>
PathF == <<"f", ".", "t", "x", "t">>

\* files that come to exist while the tools run
UploadPaths == {PathA, PathB}
\* what is on the host from the start: a text file, a directory whose name
\* ends in .pdf and a file of that suffix that is no readable PDF
HostPaths == {PathC, PathD, PathG}
\* every path a caller may name; PathE and PathF never exist
Paths == UploadPaths \cup HostPaths \cup {PathE, PathF}

ContentOf(p) ==
    CASE p = PathA -> [kind |-> "pdf", pages |-> << <<"x">>, <<"\r", " ">> >>]
      [] p = PathB -> [kind |-> "pdf", pages |-> << <<"y">> >>]
      [] p = PathD -> [kind |-> "dir", pages |-> <<>>]
      \* the stored copy of a client's a.pdf: a readable one-page PDF
      [] EndsWith(p, <<"_", "a", ".", "p", "d", "f">>) ->
            [kind |-> "pdf", pages |-> << <<"z">> >>]
      [] OTHER -> [kind |-> "corrupt", pages |-> <<>>]

PathExists(fs, p) == p \in fs

RECURSIVE SumLen(_)
SumLen(pages) ==
    IF pages = <<>> THEN 0 ELSE Len(Head(pages)) + SumLen(Tail(pages))

\* os.path.getsize of an existing file
GetSize(p) == SumLen(ContentOf(p).pages)

----------------------------------------------------------------------------
(* Return values *)

R(pre, msg, path, n, exc, text, focus) ==
    [kind |-> "return", pre |-> pre, msg |-> msg, path |-> path, n |-> n,
     exc |-> exc, text |-> text, focus |-> focus]

Raised(exc) ==
    [kind |-> "raise", pre |-> "", msg |-> "", path |-> <<>>, n |-> 0,
     exc |-> exc, text |-> <<>>, focus |-> <<>>]

NoResult ==
    [kind |-> "none", pre |-> "", msg |-> "", path |-> <<>>, n |-> 0,
     exc |-> "", text |-> <<>>, focus |-> <<>>]

Err(msg) == R("Error:", msg, <<>>, 0, "", <<>>, <<>>)
ErrPath(msg, path) == R("Error:", msg, path, 0, "", <<>>, <<>>)
ErrPathExc(msg, path, exc) == R("Error:", msg, path, 0, exc, <<>>, <<>>)
ErrExc(msg, exc) == R("Error:", msg, <<>>, 0, exc, <<>>, <<>>)

StartsWithError(r) == r.kind = "return" /\ r.pre = "Error:"

\* what a call leaves behind: its result, the persisted store and registry,
\* the lower-level calls it made, the lower-level step that failed, and the
\* text the similarity search gave
OutGot(res, vs, reg, trace, fail, got) ==
    [res |-> res, vs |-> vs, reg |-> reg, trace |-> trace, fail |-> fail,
     got |-> got]

Out(res, vs, reg, trace, fail) == OutGot(res, vs, reg, trace, fail, <<>>)

----------------------------------------------------------------------------
(* The vector store (BaseRag) *)

NoStore == [exists |-> FALSE, chunks |-> <<>>]

\* one chunk per page, with its source
Chunks(path, docs) == [i \in 1..Len(docs) |-> [src |-> path, text |-> docs[i]]]

\* PyMuPDFLoader(file_path).aload(): the pages, or the exception raised
aload(path, fs) ==
    IF ~PathExists(fs, path) THEN [docs |-> <<>>, exc |-> "FileNotFoundError"]
    ELSE CASE ContentOf(path).kind = "pdf" ->
                [docs |-> ContentOf(path).pages, exc |-> "none"]
           [] ContentOf(path).kind = "dir" ->
                [docs |-> <<>>, exc |-> "ValueError"]
           [] OTHER ->
                [docs |-> <<>>, exc |-> "RuntimeError"]

\* AddPdfToKnowledge.load_documents: FileNotFoundError and ValueError are
\* logged and the file is skipped; any other exception leaves the loop
RECURSIVE load_documents(_, _)
load_documents(urls, fs) ==
    IF urls = <<>> THEN [docs |-> <<>>, exc |-> "none"]
    ELSE LET one == aload(Head(urls), fs)
         IN IF one.exc \in {"FileNotFoundError", "ValueError"}
            THEN load_documents(Tail(urls), fs)
            ELSE IF one.exc # "none" THEN [docs |-> <<>>, exc |-> one.exc]
            ELSE LET rest == load_documents(Tail(urls), fs)
                 IN [docs |-> one.docs \o rest.docs, exc |-> rest.exc]

\* AddPdfToKnowledge.__init__: this tool persists the store it builds
AddSavesStore == TRUE

\* BaseRag._load_existing_vector_store: the persisted store, None when the
\* snapshot cannot be read, or the exception the load raises
load_existing_vector_store(vs, fault) ==
    IF fault = "none" THEN [ret |-> "none", exc |-> "none", store |-> NoStore]
    ELSE IF fault # "ok" THEN [ret |-> "none", exc |-> fault, store |-> NoStore]
    ELSE IF ~vs.exists THEN [ret |-> "none", exc |-> "FileNotFoundError", store |-> NoStore]
    ELSE [ret |-> "store", exc |-> "none", store |-> vs]

\* BaseRag.generate_vector_store: the documents are loaded (load_documents
\* awaits its loader at line 148), then the persisted store is loaded or an
\* empty one created, the chunks of the documents are appended and the
\* store is persisted.  vs is the store as persisted when the documents
\* have been loaded.
generate_vector_store(urls, fs, vs, save, fault) ==
    LET ld == load_documents(urls, fs)
        new == [exists |-> TRUE,
                chunks |-> vs.chunks \o Chunks(Head(urls), ld.docs)]
    IN IF ld.exc # "none"
       THEN [ret |-> "none", exc |-> ld.exc, vs |-> vs,
             trace |-> <<"load_documents">>]
       ELSE IF fault = "none"
       THEN [ret |-> "none", exc |-> "none", vs |-> vs,
             trace |-> <<"load_documents", "vs_open">>]
       ELSE IF fault # "ok"
       THEN [ret |-> "none", exc |-> fault, vs |-> vs,
             trace |-> <<"load_documents", "vs_open">>]
       ELSE [ret |-> "store", exc |-> "none", vs |-> IF save THEN new ELSE vs,
             trace |-> <<"load_documents", "vs_open", "vs_add">> \o
                       (IF save THEN <<"vs_save">> ELSE <<>>)]

----------------------------------------------------------------------------
(* The document registry *)

\* DocumentRegistry.json: absent, holding the JSON of the documents, or
\* holding a text that json.load rejects; len is the number of characters
\* in the file
NoRegistry == [exists |-> FALSE, valid |-> TRUE, documents |-> <<>>, len |-> 0]

\* line 176: open(..., "w") creates the file or empties it
RegistryTruncated ==
    [exists |-> TRUE, valid |-> FALSE, documents |-> <<>>, len |-> 0]

\* json.load raises on the file
RegistryUnreadable(reg) == reg.exists /\ ~reg.valid

RegistryEntry(filename, file_path, upload_date, page_count, file_size) ==
    [filename |-> filename, file_path |-> file_path, upload_date |-> upload_date,
     page_count |-> page_count, file_size_bytes |-> file_size,
     status |-> "processed"]

NoEntry == RegistryEntry(<<>>, <<>>, 0, 0, 0)

\* lines 166-170: the whole registry, or a new empty one
RegistryRead(reg) == reg.documents

\* line 173
RegistryAppend(documents, entry) == Append(documents, entry)

\* the number of decimal digits json.dump writes for a count
RECURSIVE DigitCount(_)
DigitCount(n) == IF n < 10 THEN 1 ELSE 1 + DigitCount(n \div 10)

\* line 177: the length of the text json.dump(registry, f, indent=2) writes
\* for the documents: 21 characters for an empty list, and for each entry
\* its six keys, the indentation and the 26 characters of the isoformat
\* date around the two names and the two counts (the names of the model
\* hold no character that JSON escapes)
RECURSIVE EntriesLen(_)
EntriesLen(documents) ==
    IF documents = <<>> THEN 0
    ELSE 186 + Len(Head(documents).filename) + Len(Head(documents).file_path)
             + DigitCount(Head(documents).page_count)
             + DigitCount(Head(documents).file_size_bytes)
             + EntriesLen(Tail(documents))

TextLen(documents) ==
    IF documents = <<>> THEN 21 ELSE 23 + EntriesLen(documents)

\* a variant that adds the writer's new entry to what the file holds now
RegistryWriteAppending(reg, documents) ==
    [exists |-> TRUE, valid |-> TRUE,
     documents |-> Append(reg.documents, documents[Len(documents)]),
     len |-> TextLen(Append(reg.documents, documents[Len(documents)]))]

\* line 177 and the close of the with block: the text of the documents is
\* written over the file from its start; a text shorter than what the file
\* holds leaves the tail of the old text behind it, which json.load rejects
RegistryWrite(reg, documents) ==
    IF reg.len <= TextLen(documents)
    THEN [exists |-> TRUE, valid |-> TRUE, documents |-> documents,
          len |-> TextLen(documents)]
    ELSE [exists |-> TRUE, valid |-> FALSE, documents |-> <<>>,
          len |-> reg.len]

\* the update of the registry raises, and lines 181-182 swallow it
RegistryFails(reg, fault) == fault # "ok" \/ RegistryUnreadable(reg)

\* _update_document_registry: every exception is logged and swallowed.
\* When an open is refused ("OSError") or json.load rejects the file, the
\* file is left as it was; when the write is refused after open(..., "w")
\* has emptied the file ("ENOSPC"), the file is left without its entries.
update_document_registry(reg, entry, fault) ==
    IF fault = "OSError" \/ RegistryUnreadable(reg) THEN reg
    ELSE IF fault = "ENOSPC" THEN RegistryTruncated
    ELSE RegistryWrite(RegistryTruncated,
                       RegistryAppend(RegistryRead(reg), entry))

----------------------------------------------------------------------------
(* AddPdfToKnowledge.async_invoke *)

ErrMissingFilePath == Err(" Missing required input 'file_path'.")
ErrFileNotFound(path) == ErrPath(" File not found: ", path)
ErrMustBePdf(path) == ErrPath(" File must be a PDF: ", path)
ErrNoVectorStore == Err(" Failed to create or load vector store.")
AddSuccess(filename, page_count) ==
    R("Successfully added ", " to knowledge base - pages processed.",
      filename, page_count, "", <<>>, <<>>)

\* a variant that tests the suffix before the existence of the file
AddValidateSuffixFirst(file_path, fs) ==
    IF Falsy(file_path) THEN ErrMissingFilePath
    ELSE IF ~EndsWith(Lower(file_path.s), DotPdf) THEN ErrMustBePdf(file_path.s)
    ELSE IF ~PathExists(fs, file_path.s) THEN ErrFileNotFound(file_path.s)
    ELSE NoResult

\* lines 66-78: the three input checks, in the order of the code; NoResult
\* when the input passes
AddValidate(file_path, fs) ==
    IF Falsy(file_path) THEN ErrMissingFilePath
    ELSE IF ~PathExists(fs, file_path.s) THEN ErrFileNotFound(file_path.s)
    ELSE IF ~EndsWith(Lower(file_path.s), DotPdf) THEN ErrMustBePdf(file_path.s)
    ELSE NoResult

\* a variant with no catch-all handler: only the two named exceptions are
\* turned into strings
AddCatchNamedOnly(exc, path) ==
    IF exc = "FileNotFoundError" THEN ErrFileNotFound(path)
    ELSE IF exc = "ValueError"
    THEN ErrPathExc(" Invalid file or unsupported input: ", path, exc)
    ELSE Raised(exc)

\* lines 117-127: the three handlers of the try block
AddCatch(exc, path) ==
    IF exc = "FileNotFoundError" THEN ErrFileNotFound(path)
    ELSE IF exc = "ValueError"
    THEN ErrPathExc(" Invalid file or unsupported input: ", path, exc)
    ELSE ErrExc(" Failed to add PDF to knowledge base: ", exc)

\* what the environment does to the lower-level calls of one invocation:
\* the first call that fails ends the work, so one failure is drawn
NoFault == [size |-> "ok", vs |-> "ok", reg |-> "ok"]
AddFaults ==
    {NoFault}
    \cup {[NoFault EXCEPT !.size = x] : x \in {"FileNotFoundError", "OSError"}}
    \cup {[NoFault EXCEPT !.vs = x] : x \in {"none", "RuntimeError"}}
    \cup {[NoFault EXCEPT !.reg = x] : x \in {"OSError", "ENOSPC"}}

\* lines 96-115: after the store has been created, the load for the page
\* count, the registry entry and the success message; trace is what the
\* call has done so far
AddRegister(path, fs, vs, reg, clock, f, trace) ==
    LET filename == Basename(path)
        file_size == GetSize(path)
        ld == aload(path, fs)
        page_count == Len(ld.docs)
        entry == RegistryEntry(filename, path, clock, page_count, file_size)
    IN IF ld.exc # "none"
       THEN Out(AddCatch(ld.exc, path), vs, reg, trace \o <<"aload">>, "aload")
       ELSE Out(AddSuccess(filename, page_count), vs,
                update_document_registry(reg, entry, f.reg),
                trace \o <<"aload", "registry">>,
                IF RegistryFails(reg, f.reg) THEN "registry" ELSE "none")

\* lines 82-115: the body of the try block, for a path that passed the
\* checks.  f names what the environment does to each lower-level call.
AddTry(path, fs, vs, reg, clock, f) ==
    IF f.size # "ok"
    THEN Out(AddCatch(f.size, path), vs, reg, <<"getsize">>, "getsize")
    ELSE
    LET g == generate_vector_store(<<path>>, fs, vs, AddSavesStore, f.vs)
    IN IF g.exc # "none"
       THEN Out(AddCatch(g.exc, path), g.vs, reg, <<"getsize">> \o g.trace,
                "vector_store")
       ELSE IF g.ret = "none"
       THEN Out(ErrNoVectorStore, g.vs, reg, <<"getsize">> \o g.trace,
                "vector_store")
       ELSE AddRegister(path, fs, g.vs, reg, clock, f, <<"getsize">> \o g.trace)

add_async_invoke(args, fs, vs, reg, clock, f) ==
    LET file_path == ArgsGet(args, "file_path", Str(<<>>))
        bad == AddValidate(file_path, fs)
    IN IF bad # NoResult THEN Out(bad, vs, reg, <<>>, "none")
       ELSE AddTry(file_path.s, fs, vs, reg, clock, f)

\* the call gets as far as the await of load_documents: its input passed
\* the checks and the file size was read
AddReachesLoad(args, fs, f) ==
    /\ AddValidate(ArgsGet(args, "file_path", Str(<<>>)), fs) = NoResult
    /\ f.size = "ok"

----------------------------------------------------------------------------
(* QueryPdfKnowledge.async_invoke *)

ErrMissingQuery == Err(" Missing required input 'query'.")
ErrNoKnowledgeBase ==
    Err(" No knowledge base found. Please upload PDF documents first.")
ErrCorruptStore ==
    Err(" Failed to load knowledge base. The vector store may be corrupted.")
ErrStoreFileNotFound ==
    Err(" Knowledge base file not found. Please upload PDF documents first.")
NoRelevant ==
    R("", "No relevant information found in the knowledge base for this query.",
      <<>>, 0, "", <<>>, <<>>)
RawText(text) == R("", "", <<>>, 0, "", text, <<>>)

\* a variant that looks for the store before it looks at the query
QueryValidateStoreFirst(query, vs) ==
    IF ~vs.exists THEN ErrNoKnowledgeBase
    ELSE IF Falsy(query) THEN ErrMissingQuery
    ELSE NoResult

\* a variant that does not look for the store file
QueryValidateNoStoreCheck(query, vs) ==
    IF Falsy(query) THEN ErrMissingQuery ELSE NoResult

\* lines 60-70: the query check, then the existence of the store file
QueryValidate(query, vs) ==
    IF Falsy(query) THEN ErrMissingQuery
    ELSE IF ~vs.exists THEN ErrNoKnowledgeBase
    ELSE NoResult

\* lines 89-95
QueryCatch(exc) ==
    IF exc = "FileNotFoundError" THEN ErrStoreFileNotFound
    ELSE ErrExc(" Failed to query knowledge base: ", exc)

\* a variant that tests emptiness only
QueryAnswerNoStrip(result) ==
    IF result = <<>> THEN NoRelevant ELSE RawText(result)

\* lines 82-87
QueryAnswer(result) ==
    IF result = <<>> \/ Strip(result) = <<>> THEN NoRelevant ELSE RawText(result)

Separator == <<"\n", "\n">>

\* BaseRag.query_vectorstore: the texts of the chunks the similarity search
\* returns, concatenated; hits are the indexes of those chunks
query_vectorstore(store, hits) ==
    Join(Separator, [i \in 1..Len(hits) |-> store.chunks[hits[i]].text])

Min(a, b) == IF a < b THEN a ELSE b

\* the answers a similarity search can give: the TopK nearest chunks, in
\* the order of their distance to the query; of the copies of one chunk
\* (a document ingested twice) the earlier ones are taken first, since
\* answers that differ only in which copy they take are the same text
Hits(store) ==
    LET n == Len(store.chunks)
        k == Min(TopK, n)
    IN {h \in [1..k -> 1..n] :
          /\ \A i, j \in 1..k : i # j => h[i] # h[j]
          /\ \A i \in 1..k : \A j \in 1..(h[i] - 1) :
                store.chunks[j] = store.chunks[h[i]]
                   => \E m \in 1..(i - 1) : h[m] = j}

\* the environment of one query: a failing load, a failing search, or the
\* chunks the search returns
QueryEnvs(store) ==
    {[load |-> x, search |-> "ok", hits |-> <<>>] :
        x \in {"none", "FileNotFoundError", "RuntimeError"}}
    \cup {[load |-> "ok", search |-> "RuntimeError", hits |-> <<>>]}
    \cup {[load |-> "ok", search |-> "ok", hits |-> h] : h \in Hits(store)}

query_async_invoke(args, vs, reg, f) ==
    LET query == ArgsGet(args, "query", Str(<<>>))
        bad == QueryValidate(query, vs)
        ld == load_existing_vector_store(vs, f.load)
    IN IF bad # NoResult THEN Out(bad, vs, reg, <<>>, "none")
       ELSE IF ld.exc # "none"
       THEN Out(QueryCatch(ld.exc), vs, reg, <<"vs_load">>, "vs_load")
       ELSE IF ld.ret = "none"
       THEN Out(ErrCorruptStore, vs, reg, <<"vs_load">>, "vs_load")
       ELSE IF f.search # "ok"
       THEN Out(QueryCatch(f.search), vs, reg, <<"vs_load", "search">>, "search")
       ELSE LET result == query_vectorstore(ld.store, f.hits)
            IN OutGot(QueryAnswer(result), vs, reg, <<"vs_load", "search">>,
                      "none", result)

----------------------------------------------------------------------------
(* ExtractPdfKnowledge.async_invoke *)

SampleLimit == 10000

ErrEmptyDocument(path) ==
    ErrPath(" Failed to load document or document is empty: ", path)

\* lines 110-120
ExtractCatch(exc, path) ==
    IF exc = "FileNotFoundError" THEN ErrFileNotFound(path)
    ELSE IF exc = "ValueError"
    THEN ErrPathExc(" Invalid file or unsupported input: ", path, exc)
    ELSE ErrExc(" Failed to extract knowledge from PDF: ", exc)

\* _generate_document_summary: the header with the file name and the page
\* count, the focus areas when given, and the text sample
generate_document_summary(filename, page_count, text_sample, focus_areas) ==
    R("Document: ", "CONTENT OVERVIEW:", filename, page_count, "",
      text_sample, focus_areas)

\* lines 64-108; the input checks are those of the ingestion tool
extract_async_invoke(args, fs, vs, reg) ==
    LET file_path == ArgsGet(args, "file_path", Str(<<>>))
        focus_areas == ArgsGet(args, "focus_areas", List(<<>>))
        bad == AddValidate(file_path, fs)
        ld == aload(file_path.s, fs)
        full_text == Join(Separator, ld.docs)
        text_sample == IF Len(full_text) > SampleLimit
                       THEN SubSeq(full_text, 1, SampleLimit) ELSE full_text
    IN IF bad # NoResult THEN Out(bad, vs, reg, <<>>, "none")
       ELSE IF ld.exc # "none"
       THEN Out(ExtractCatch(ld.exc, file_path.s), vs, reg, <<"aload">>, "aload")
       ELSE IF ld.docs = <<>>
       THEN Out(ErrEmptyDocument(file_path.s), vs, reg, <<"aload">>, "none")
       ELSE Out(generate_document_summary(Basename(file_path.s), Len(ld.docs),
                                          text_sample, focus_areas.s),
                vs, reg, <<"aload">>, "none")

----------------------------------------------------------------------------
(* The order-fulfilment lookup tools.  A dictionary result is a record     *)
(* [kind |-> "dict", dict |-> the dictionary]; an error string is a return *)
(* value as above, its path field holding the interpolated key.  A float   *)
(* is written as the string of its literal.  The entries of the two long   *)
(* lists (checklist items, failure modes) are written as their "id".       *)

IntVal(s) == [t |-> "int", s |-> s]

\* str(v) as an f-string interpolates it
StrOf(v) == IF v.t = "none" THEN <<"N", "o", "n", "e">> ELSE v.s

Dict(d) == [kind |-> "dict", dict |-> d]

IsDict(r) == r.kind = "dict"

\* key in table, for a hashable key: only a string equals a string key
InTable(v, table) == v.t = "str" /\ v.s \in DOMAIN table

\* .lower().replace(" ", "_")
Normalise(s) == Replace(Lower(s), " ", "_")

SkuDino == <<"T", "B", "-", "D", "I", "N", "O", "-", "0", "0", "3">>
Standard == <<"S", "T", "A", "N", "D", "A", "R", "D">>
Rush == <<"R", "U", "S", "H">>
HiddenField == "plasticiser_thermal_degradation_onset_celsius"

\* _SUPPLIER_DATA, with the two values of the field that is kept internal
SupplierData(onsetA, onsetB) ==
    [k \in {SkuDino} |->
        [product_name |-> "ToyBright Bath Dinosaur",
         material_category |-> "PVC compound (injection moulding grade)",
         approved_suppliers |-> <<
            [supplier_id |-> "SUP-A-2291",
             supplier_name |-> "PrimePlast GmbH",
             material_code |-> "PVC-A12",
             plasticiser_type |-> "DOTP (Dioctyl terephthalate)",
             lead_time_days |-> 18,
             stock_available |-> FALSE,
             minimum_order_qty_kg |-> 2500,
             unit_cost_gbp_per_kg |-> "3.42",
             ms4401_v3_2_results |->
                [tensile_strength_mpa |-> "24.1",
                 elongation_at_break_pct |-> 310,
                 shore_hardness_a |-> 78,
                 density_g_per_cm3 |-> "1.31",
                 melt_flow_index_g_per_10min |-> "8.2"],
             plasticiser_thermal_degradation_onset_celsius |-> onsetA],
            [supplier_id |-> "SUP-B-4487",
             supplier_name |-> "AsiaCompound Ltd",
             material_code |-> "PVC-B7",
             plasticiser_type |->
                "DINCH (Diisononyl cyclohexane-1,2-dicarboxylate)",
             lead_time_days |-> 8,
             stock_available |-> TRUE,
             minimum_order_qty_kg |-> 1000,
             unit_cost_gbp_per_kg |-> "2.87",
             ms4401_v3_2_results |->
                [tensile_strength_mpa |-> "22.8",
                 elongation_at_break_pct |-> 295,
                 shore_hardness_a |-> 76,
                 density_g_per_cm3 |-> "1.29",
                 melt_flow_index_g_per_10min |-> "9.1"],
             plasticiser_thermal_degradation_onset_celsius |-> onsetB] >>]]

OnsetA == 210
OnsetB == 188

\* the table the module holds
SUPPLIER_DATA == SupplierData(OnsetA, OnsetB)

ErrSkuNotFound(sku) ==
    ErrPath(" SKU '{sku}' not found in Approved Vendor List.", StrOf(sku))

\* a mutation of SupplierEntry: the supplier's record is copied whole
SupplierEntryWhole(supplier) == supplier

\* the supplier_entry built for one supplier of the record
SupplierEntry(supplier) ==
    [supplier_id |-> supplier.supplier_id,
     supplier_name |-> supplier.supplier_name,
     material_code |-> supplier.material_code,
     plasticiser_type |-> supplier.plasticiser_type,
     lead_time_days |-> supplier.lead_time_days,
     stock_available |-> supplier.stock_available,
     minimum_order_qty_kg |-> supplier.minimum_order_qty_kg,
     unit_cost_gbp_per_kg |-> supplier.unit_cost_gbp_per_kg,
     ms4401_v3_2_results |-> supplier.ms4401_v3_2_results]

SupplierResult(sku, record) ==
    [sku |-> sku,
     product_name |-> record.product_name,
     material_category |-> record.material_category,
     testing_standard |-> "MS-4401 v3.2 - Material Suitability Standard",
     tested_parameters |-> <<"tensile_strength_mpa", "elongation_at_break_pct",
                             "shore_hardness_a", "density_g_per_cm3",
                             "melt_flow_index_g_per_10min">>,
     approved_suppliers |->
        [i \in 1..Len(record.approved_suppliers) |->
            SupplierEntry(record.approved_suppliers[i])],
     note |-> "All listed suppliers have passed MS-4401 v3.2 ..."]

RushAdvisory ==
    [rush_advisory |-> "RUSH ORDER: Prioritise suppliers with shortest lead time ..."]

\* a mutation of IsRush: the priority is compared as it was given
IsRushExact(order_priority) == order_priority = Rush

\* order_priority, upper-cased by the caller, is compared with "RUSH"
IsRush(order_priority) == Upper(order_priority) = Rush

\* ApprovedSupplierDatabase.invoke over the table given
supplier_invoke(args, table) ==
    LET sku == ArgsGet(args, "sku", Str(<<>>))
        given == ArgsGet(args, "order_priority", Str(Standard))
    IN IF given.t # "str" THEN Raised("AttributeError")
       ELSE IF ~InTable(sku, table) THEN ErrSkuNotFound(sku)
       ELSE IF IsRush(given.s)
            THEN Dict(SupplierResult(sku.s, table[sku.s]) @@ RushAdvisory)
            ELSE Dict(SupplierResult(sku.s, table[sku.s]))

KeyToys == <<"c", "h", "i", "l", "d", "r", "e", "n", "s", "_", "t", "o", "y", "_", "p", "r", "o", "d", "u", "c", "t", "i", "o", "n">>

COMPLIANCE_CHECKLISTS ==
    [k \in {KeyToys} |->
        [checklist_name |-> "Children's Toy Production Compliance Checklist",
         reference |-> "CC-TOY-2024-R2",
         applicable_regulations |-> <<"EN 71-3:2019+A1:2021", "REACH Regulation (EC) No 1907/2006",
                                      "UK Toy Safety Regulations 2011">>,
         checklist_items |-> <<"CC-001", "CC-002", "CC-003", "CC-004",
                               "CC-005", "CC-006", "CC-007">>]]

ErrCategoryNotFound(key) ==
    ErrPath(" Product category '{product_category}' not found in compliance checklist database.", key)

\* a mutation of LookupKey: the key is looked up as it was given
LookupKeyAsGiven(v) == v.s

\* the key a tool looks up: the argument, normalised
LookupKey(v) == Normalise(v.s)

\* ComplianceChecklistDatabase.invoke
compliance_invoke(args) ==
    LET given == ArgsGet(args, "product_category", Str(KeyToys))
    IN IF given.t # "str" THEN Raised("AttributeError")
       ELSE LET product_category == LookupKey(given)
            IN IF product_category \notin DOMAIN COMPLIANCE_CHECKLISTS
               THEN ErrCategoryNotFound(product_category)
               ELSE LET record == COMPLIANCE_CHECKLISTS[product_category]
                    IN Dict([checklist_name |-> record.checklist_name,
                             reference |-> record.reference,
                             applicable_regulations |-> record.applicable_regulations,
                             total_items |-> Len(record.checklist_items),
                             checklist_items |-> record.checklist_items,
                             note |-> "Verify each checklist item ..."])

KeyMoulding == <<"i", "n", "j", "e", "c", "t", "i", "o", "n", "_", "m", "o", "u", "l", "d", "i", "n", "g">>

PARAMETER_RANGES ==
    [k \in {KeyMoulding} |->
        [process_type |-> "Injection Moulding",
         material_category |-> "PVC compound",
         parameters |->
            [barrel_temperature_celsius |-> [min |-> 180, max |-> 200],
             injection_pressure_bar |-> [min |-> 80, max |-> 120],
             cooling_time_seconds |-> [min |-> 15, max |-> 25],
             mould_temperature_celsius |-> [min |-> 30, max |-> 50],
             injection_speed_mm_per_s |-> [min |-> 40, max |-> 80]],
         throughput_advisory |-> "At 195-200C barrel temperature, throughput increases ...",
         validation_reference |-> "PVR-2023-017",
         validation_status |-> "APPROVED"]]

ErrParameterNotFound(key) ==
    ErrPath(" Process type '{process_type}' not found in approved parameter database.", key)

\* ProductionParameterDatabase.invoke
production_invoke(args) ==
    LET given == ArgsGet(args, "process_type", Str(KeyMoulding))
    IN IF given.t # "str" THEN Raised("AttributeError")
       ELSE LET process_type == LookupKey(given)
            IN IF process_type \notin DOMAIN PARAMETER_RANGES
               THEN ErrParameterNotFound(process_type)
               ELSE LET record == PARAMETER_RANGES[process_type]
                    IN Dict([process_type |-> record.process_type,
                             material_category |-> record.material_category,
                             approved_parameters |-> record.parameters,
                             throughput_advisory |-> record.throughput_advisory,
                             validation_reference |-> record.validation_reference,
                             validation_status |-> record.validation_status,
                             note |-> "All parameter ranges have been validated ..."])

KeyPvc == <<"p", "v", "c", "_", "i", "n", "j", "e", "c", "t", "i", "o", "n", "_", "m", "o", "u", "l", "d", "i", "n", "g">>

FAILURE_MODES ==
    [k \in {KeyPvc} |->
        [process_type |-> "PVC Injection Moulding",
         fmea_reference |-> "FMEA-PVC-IM-2023-R4",
         failure_modes |-> <<"FM-001", "FM-002", "FM-003", "FM-004",
                             "FM-005", "FM-006">>,
         scope_note |-> "This FMEA covers production process failure modes ..."]]

ErrFailureModeNotFound(key) ==
    ErrPath(" Process type '{process_type}' not found in failure mode database.", key)

\* QualityFailureModeDatabase.invoke
quality_invoke(args) ==
    LET given == ArgsGet(args, "process_type", Str(KeyPvc))
    IN IF given.t # "str" THEN Raised("AttributeError")
       ELSE LET process_type == LookupKey(given)
            IN IF process_type \notin DOMAIN FAILURE_MODES
               THEN ErrFailureModeNotFound(process_type)
               ELSE LET record == FAILURE_MODES[process_type]
                    IN Dict([process_type |-> record.process_type,
                             fmea_reference |-> record.fmea_reference,
                             total_failure_modes |-> Len(record.failure_modes),
                             failure_modes |-> record.failure_modes,
                             scope_note |-> record.scope_note,
                             note |-> "Evaluate production quality risk ONLY ..."])

LookupTools == {"supplier", "compliance", "production", "quality"}

\* the argument a tool takes its key from
KeyArg(tool) ==
    CASE tool = "supplier" -> "sku"
      [] tool = "compliance" -> "product_category"
      [] OTHER -> "process_type"

\* the keys of a tool's table
TableKeys(tool) ==
    CASE tool = "supplier" -> DOMAIN SUPPLIER_DATA
      [] tool = "compliance" -> DOMAIN COMPLIANCE_CHECKLISTS
      [] tool = "production" -> DOMAIN PARAMETER_RANGES
      [] OTHER -> DOMAIN FAILURE_MODES

\* the fields of a tool's dictionary result
OutputShape(tool) ==
    CASE tool = "supplier" ->
            {"sku", "product_name", "material_category", "testing_standard",
             "tested_parameters", "approved_suppliers", "note"}
      [] tool = "compliance" ->
            {"checklist_name", "reference", "applicable_regulations",
             "total_items", "checklist_items", "note"}
      [] tool = "production" ->
            {"process_type", "material_category", "approved_parameters",
             "throughput_advisory", "validation_reference",
             "validation_status", "note"}
      [] OTHER ->
            {"process_type", "fmea_reference", "total_failure_modes",
             "failure_modes", "scope_note", "note"}

\* async_invoke of each tool hands the call to invoke
lookup_invoke(tool, args) ==
    CASE tool = "supplier" -> supplier_invoke(args, SUPPLIER_DATA)
      [] tool = "compliance" -> compliance_invoke(args)
      [] tool = "production" -> production_invoke(args)
      [] OTHER -> quality_invoke(args)

NoLookup == [tool |-> "none", args |-> NoArgs, res |-> NoResult]

----------------------------------------------------------------------------
(* The web interface: interface_flask.py over pdf_knowledge_assistant.py.  *)
(* A response is a record: kind "json" with its status, the first key of   *)
(* its body and the value under it; kind "text" or "html"; or kind "raise" *)
(* when the exception left the handler.                                    *)

Resp(kind, status, key, error, exc, value) ==
    [kind |-> kind, status |-> status, key |-> key, error |-> error,
     exc |-> exc, value |-> value]

Json(key, value) == Resp("json", 200, key, "", "", value)
JsonError(status, error, exc) == Resp("json", status, "error", error, exc, <<>>)
Escaped(exc) == Resp("raise", 0, "", "", exc, <<>>)
NoResp == Resp("none", 0, "", "", "", <<>>)

\* the thread set_up_pdf_knowledge_assistant builds
InitialThread ==
    [last_chat_response |-> None,
     prompt |-> "Please enter your query or upload a PDF:\n",
     timeout |-> "5000.0",
     num_input |-> 0,
     user_input |-> None,
     sly_data |-> None,
     chat_filter |-> "MAXIMAL"]

\* TopicMemory.json: absent, or topics with their facts in insertion order
NoMemory == [exists |-> FALSE, memory |-> <<>>]

\* the topics a client asks for, and those the agent commits facts to
TopicNames == {<<"a">>, <<"b">>}
CommitTopics == {<<"a">>}

TopicsOf(mem) == [i \in 1..Len(mem.memory) |-> mem.memory[i].topic]

CountFacts(mem) ==
    SumLen([i \in 1..Len(mem.memory) |-> mem.memory[i].facts])

\* the external agent commits one fact to a topic: appended to the facts
\* of a known topic, or the first fact of a new one
commit_to_memory(mem, topic) ==
    IF \E i \in 1..Len(mem.memory) : mem.memory[i].topic = topic
    THEN [exists |-> TRUE,
          memory |-> [i \in 1..Len(mem.memory) |->
                        IF mem.memory[i].topic = topic
                        THEN [topic |-> topic,
                              facts |-> Append(mem.memory[i].facts, "f")]
                        ELSE mem.memory[i]]]
    ELSE [exists |-> TRUE,
          memory |-> Append(mem.memory, [topic |-> topic, facts |-> <<"f">>])]

ALLOWED_EXTENSIONS == {<<"p", "d", "f">>}

\* s.rsplit(".", 1)[1], for an s that holds a "."
AfterLastDot(s) ==
    LET dots == {i \in 1..Len(s) : s[i] = "."}
        cut == CHOOSE i \in dots : \A j \in dots : j <= i
    IN SubSeq(s, cut + 1, Len(s))

\* a mutation of allowed_file: the name only has to end in "pdf"
AllowedFileNoDot(filename) == EndsWith(Lower(filename), <<"p", "d", "f">>)

allowed_file(filename) ==
    /\ \E i \in 1..Len(filename) : filename[i] = "."
    /\ Lower(AfterLastDot(filename)) \in ALLOWED_EXTENSIONS

Digits == <<"0", "1", "2", "3", "4", "5", "6", "7", "8", "9">>

SafeChars ==
    {UpperLetters[i] : i \in 1..Len(UpperLetters)}
        \cup {LowerLetters[i] : i \in 1..Len(LowerLetters)}
        \cup {Digits[i] : i \in 1..Len(Digits)} \cup {"_", ".", "-"}

RECURSIVE StripEnds(_)
StripEnds(s) ==
    IF s # <<>> /\ Head(s) \in {".", "_"} THEN StripEnds(Tail(s))
    ELSE IF s # <<>> /\ s[Len(s)] \in {".", "_"}
    THEN StripEnds(SubSeq(s, 1, Len(s) - 1))
    ELSE s

\* werkzeug.utils.secure_filename, for names without runs of white space:
\* "/" and " " become "_", every other character outside the safe set is
\* dropped, and leading and trailing "." and "_" are stripped
secure_filename(name) ==
    StripEnds(SelectSeq(Replace(Replace(name, "/", "_"), " ", "_"),
                        LAMBDA c : c \in SafeChars))

\* datetime.now().strftime("%Y%m%d_%H%M%S"): one text for each second
Stamp(clock) == <<Digits[clock + 1]>>

UPLOAD_FOLDER == <<"u">>
Cwd == <<"/", "w">>

\* os.path.abspath of a relative path
abspath(path) == Cwd \o <<"/">> \o path

\* lines 65-68 and 77: where the upload of a client file name is stored
StoredPath(clock, name) ==
    abspath(UPLOAD_FOLDER \o <<"/">> \o Stamp(clock) \o <<"_">>
                \o secure_filename(name))

\* process_pdf_upload: the instruction that names the stored file
UploadInstruction(file_path) ==
    Str(<<"A PDF file has been uploaded at: ">> \o file_path
            \o <<"\nPlease add this document to the knowledge base ...">>)

\* what the external agent does with one turn: it answers, returns with no
\* response, raises an Exception, or raises what is no Exception (a
\* KeyboardInterrupt, a SystemExit, a cancellation); on an upload it may
\* call the ingestion tool
AgentTurn(outcome, adds, fault) ==
    [outcome |-> outcome, adds |-> adds, fault |-> fault]

QueryTurns ==
    {AgentTurn(o, FALSE, NoFault) :
        o \in {"answer", "silent", "raise", "raise_base"}}

UploadTurns ==
    {AgentTurn(o, FALSE, NoFault) : o \in {"answer", "raise", "raise_base"}}
        \cup {AgentTurn("answer", TRUE, f) :
                f \in {NoFault, [NoFault EXCEPT !.reg = "ENOSPC"]}}

\* what leaves process_once in a turn that raises
TurnRaises(agent) ==
    IF agent.outcome = "raise" THEN "RuntimeError"
    ELSE IF agent.outcome = "raise_base" THEN "BaseException"
    ELSE "none"

\* except Exception, lines 89 and 114 of interface_flask.py: the clause
\* catches what derives from Exception
CaughtAsException(exc) == exc # "BaseException"

AgentAnswer == Str(<<"o", "k">>)

\* StreamingInputProcessor.process_once for a turn that returns.  The
\* thread state is passed by value into and out of each turn: the record
\* passed in is left as it is and a new record is returned, with the
\* response of the turn, the turn counted and the input consumed
process_once(th, agent) ==
    [th EXCEPT !.last_chat_response =
                    IF agent.outcome = "answer" THEN AgentAnswer ELSE None,
               !.num_input = @ + 1,
               !.user_input = None]

\* a mutation of process_user_query: the input goes into a copy of the
\* caller's record
ProcessUserQueryOnCopy(th, user_input, agent) ==
    IF TurnRaises(agent) # "none"
    THEN [exc |-> TurnRaises(agent), response |-> None, held |-> th,
          thread |-> th]
    ELSE LET new == process_once([th EXCEPT !.user_input = user_input], agent)
         IN [exc |-> "none", response |-> new.last_chat_response,
             held |-> th, thread |-> new]

\* process_user_query: held is the record the caller passed, as the call
\* leaves it; thread is the record returned
process_user_query(th, user_input, agent) ==
    LET held == [th EXCEPT !.user_input = user_input]
    IN IF TurnRaises(agent) # "none"
       THEN [exc |-> TurnRaises(agent), response |-> None, held |-> held,
             thread |-> held]
       ELSE LET new == process_once(held, agent)
            IN [exc |-> "none", response |-> new.last_chat_response,
                held |-> held, thread |-> new]

process_pdf_upload(th, file_path, agent) ==
    process_user_query(th, UploadInstruction(file_path), agent)

UploadEnv(makedirs, save, agent) ==
    [makedirs |-> makedirs, save |-> save, agent |-> agent]

UploadEnvs ==
    {UploadEnv("OSError", "ok", AgentTurn("answer", FALSE, NoFault)),
     UploadEnv("ok", "OSError", AgentTurn("answer", FALSE, NoFault))}
        \cup {UploadEnv("ok", "ok", a) : a \in UploadTurns}

\* what a request leaves behind: the response, the files and the upload
\* folder, the process-wide thread, the number of agent turns begun, and
\* the exception of the turn
Handled(resp, fs, dir, th, turns, exc) ==
    [resp |-> resp, files |-> fs, updir |-> dir, thread |-> th,
     turns |-> turns, exc |-> exc]

\* lines 63-90: the try block of upload_file.  What the turn raises and
\* line 89 does not catch leaves the handler.
UploadTry(req, fs, dir, th, clock, env) ==
    LET filename == secure_filename(req.filename)
        unique_filename == Stamp(clock) \o <<"_">> \o filename
        abs_filepath == StoredPath(clock, req.filename)
        saved == fs \cup {abs_filepath}
        turn == process_pdf_upload(th, abs_filepath, env.agent)
    IN IF env.makedirs # "ok"
       THEN Handled(JsonError(500, "Failed to process file: ", env.makedirs),
                    fs, dir, th, 0, "none")
       ELSE IF env.save # "ok"
       THEN Handled(JsonError(500, "Failed to process file: ", env.save),
                    fs, TRUE, th, 0, "none")
       ELSE IF turn.exc # "none" /\ ~CaughtAsException(turn.exc)
       THEN Handled(Escaped(turn.exc), saved, TRUE, turn.held, 1, turn.exc)
       ELSE IF turn.exc # "none"
       THEN Handled(JsonError(500, "Failed to process file: ", turn.exc),
                    saved, TRUE, turn.held, 1, turn.exc)
       ELSE Handled(Json("success", [message |-> turn.response,
                                     filename |-> unique_filename,
                                     filepath |-> abs_filepath]),
                    saved, TRUE, turn.thread, 1, "none")

\* upload_file.  A body over MAX_CONTENT_LENGTH cannot be parsed:
\* request.files raises at line 52.
upload_file(req, fs, dir, th, clock, env) ==
    IF req.kind = "too_large"
    THEN Handled(Escaped("RequestEntityTooLarge"), fs, dir, th, 0, "none")
    ELSE IF ~req.has_file
    THEN Handled(JsonError(400, "No file part in request", ""),
                 fs, dir, th, 0, "none")
    ELSE IF req.filename = <<>>
    THEN Handled(JsonError(400, "No file selected", ""),
                 fs, dir, th, 0, "none")
    ELSE IF ~allowed_file(req.filename)
    THEN Handled(JsonError(400, "Only PDF files are allowed", ""),
                 fs, dir, th, 0, "none")
    ELSE UploadTry(req, fs, dir, th, clock, env)

\* a message on the /chat namespace: its event, the literal text of its
\* data and the value interpolated into it
Message(event, lit, text) == [event |-> event, lit |-> lit, text |-> text]

\* a mutation of emit: the message goes out ahead of those emitted before
EmitAhead(emits, message) == <<message>> \o emits

\* socketio.emit
emit(emits, message) == Append(emits, message)

\* what the handling of one event leaves behind
Answered(emits, th, turns, exc, escaped) ==
    [emits |-> emits, thread |-> th, turns |-> turns, exc |-> exc,
     escaped |-> escaped]

\* line 105: the query is echoed to the clients before the turn begins
QueryEcho(json_data) ==
    emit(<<>>, Message("user_message", "",
                       ArgsGet(json_data.d, "data", Str(<<>>)).s))

\* a mutation of handle_user_query with no try block: what the turn
\* raises leaves the handler after the echo
HandleUserQueryNoCatch(json_data, th, agent) ==
    IF ~json_data.mapping
    THEN Answered(<<>>, th, 0, "none", "AttributeError")
    ELSE
    LET user_query == ArgsGet(json_data.d, "data", Str(<<>>))
        echo == QueryEcho(json_data)
        turn == process_user_query(th, user_query, agent)
    IN IF Falsy(user_query)
       THEN Answered(emit(<<>>, Message("agent_response",
                                        "Error: Empty query received.", <<>>)),
                     th, 0, "none", "none")
       ELSE IF turn.exc # "none"
       THEN Answered(echo, turn.held, 1, turn.exc, turn.exc)
       ELSE Answered(emit(echo,
                          IF Falsy(turn.response)
                          THEN Message("agent_response",
                                       "No response from agent.", <<>>)
                          ELSE Message("agent_response", "", turn.response.s)),
                     turn.thread, 1, "none", "none")

\* handle_user_query.  json_data is the payload of the event: a mapping,
\* or a value without .get.  What the turn raises and line 114 does not
\* catch leaves the handler after the echo.
handle_user_query(json_data, th, agent) ==
    IF ~json_data.mapping
    THEN Answered(<<>>, th, 0, "none", "AttributeError")
    ELSE
    LET user_query == ArgsGet(json_data.d, "data", Str(<<>>))
        echo == QueryEcho(json_data)
        turn == process_user_query(th, user_query, agent)
    IN IF Falsy(user_query)
       THEN Answered(emit(<<>>, Message("agent_response",
                                        "Error: Empty query received.", <<>>)),
                     th, 0, "none", "none")
       ELSE IF turn.exc # "none" /\ ~CaughtAsException(turn.exc)
       THEN Answered(echo, turn.held, 1, turn.exc, turn.exc)
       ELSE IF turn.exc # "none"
       THEN Answered(emit(echo, Message("agent_response",
                                        "Error processing query: ",
                                        <<turn.exc>>)),
                     turn.held, 1, turn.exc, "none")
       ELSE Answered(emit(echo,
                          IF Falsy(turn.response)
                          THEN Message("agent_response",
                                       "No response from agent.", <<>>)
                          ELSE Message("agent_response", "", turn.response.s)),
                     turn.thread, 1, "none", "none")

\* index: the page, or what render_template raises
index(fault) ==
    IF fault # "none" THEN Escaped(fault) ELSE Resp("html", 200, "", "", "", <<>>)

\* a mutation of get_topics: the file is opened without the test that it
\* exists
GetTopicsUnchecked(mem, fault) ==
    IF ~mem.exists THEN JsonError(500, "Failed to load topics: ", "FileNotFoundError")
    ELSE IF fault # "none" THEN JsonError(500, "Failed to load topics: ", fault)
    ELSE Json("topics", TopicsOf(mem))

\* get_topics; fault is what open or json.load raises
get_topics(mem, fault) ==
    IF ~mem.exists THEN Json("topics", <<>>)
    ELSE IF fault # "none" THEN JsonError(500, "Failed to load topics: ", fault)
    ELSE Json("topics", TopicsOf(mem))

NoFactsFound == <<"No facts found for this topic.">>
NoMemoryFound == <<"No memory found.">>

\* memory.get(topic, "No facts found for this topic.")
FactsOf(mem, topic) ==
    IF \E i \in 1..Len(mem.memory) : mem.memory[i].topic = topic
    THEN mem.memory[CHOOSE i \in 1..Len(mem.memory) :
                        mem.memory[i].topic = topic].facts
    ELSE NoFactsFound

get_topic_facts(topic, mem, fault) ==
    IF ~mem.exists THEN Json("facts", [topic |-> topic, facts |-> NoMemoryFound])
    ELSE IF fault # "none"
    THEN JsonError(500, "Failed to load topic facts: ", fault)
    ELSE Json("facts", [topic |-> topic, facts |-> FactsOf(mem, topic)])

get_documents(reg, fault) ==
    IF ~reg.exists THEN Json("documents", <<>>)
    ELSE IF fault # "none"
    THEN JsonError(500, "Failed to load documents: ", fault)
    ELSE IF RegistryUnreadable(reg)
    THEN JsonError(500, "Failed to load documents: ", "JSONDecodeError")
    ELSE Json("documents", reg.documents)

get_stats(reg, mem, fault) ==
    IF (reg.exists \/ mem.exists) /\ fault # "none"
    THEN JsonError(500, "Failed to load stats: ", fault)
    ELSE IF RegistryUnreadable(reg)
    THEN JsonError(500, "Failed to load stats: ", "JSONDecodeError")
    ELSE Json("document_count",
              [document_count |-> IF reg.exists THEN Len(reg.documents) ELSE 0,
               topic_count |-> IF mem.exists THEN Len(mem.memory) ELSE 0])

\* the server process: whether it runs, whether its server takes requests,
\* and whether an operation was invoked on the agent session after the
\* session had been closed
Running == [running |-> TRUE, serving |-> TRUE, late |-> FALSE]

\* an operation is invoked on the session
InvokedOn(sess, p) == [p EXCEPT !.late = @ \/ sess = "closed"]

\* what close() and socketio.stop() do in one run of cleanup: each returns
\* or raises
CleanupFault(close, stop) == [close |-> close, stop |-> stop]

CleanupFaults ==
    {CleanupFault("none", "none"), CleanupFault("RuntimeError", "none"),
     CleanupFault("none", "RuntimeError")}

\* cleanup, lines 187-191, two calls with no try:
\* tear_down_pdf_knowledge_assistant calls close on the session, whatever
\* its state, and then socketio.stop() stops the server; what either
\* raises leaves cleanup, and what close raises leaves the server running
\* with the session as it was
cleanup(sess, fault) ==
    IF fault.close # "none"
    THEN [exc |-> fault.close, session |-> sess, stopped |-> FALSE]
    ELSE IF fault.stop # "none"
    THEN [exc |-> fault.stop, session |-> "closed", stopped |-> FALSE]
    ELSE [exc |-> "none", session |-> "closed", stopped |-> TRUE]

\* shutdown, lines 194-198: cleanup and then the text; what cleanup raises
\* leaves the handler
shutdown(sess, fault) ==
    LET c == cleanup(sess, fault)
    IN [resp |-> IF c.exc # "none" THEN Escaped(c.exc)
                 ELSE Resp("text", 200, "", "", "", <<>>),
        session |-> c.session, stopped |-> c.stopped]

\* the last request handled, with the state it met
Request(handler, req, resp, emits, turns, exc, pre) ==
    [handler |-> handler, req |-> req, resp |-> resp, emits |-> emits,
     turns |-> turns, exc |-> exc, pre |-> pre]

Met(fs, dir, th, mem, sess) ==
    [files |-> fs, updir |-> dir, thread |-> th, topics |-> mem,
     session |-> sess]

NoRequest ==
    Request("none", <<>>, NoResp, <<>>, 0, "none",
            Met({}, FALSE, InitialThread, NoMemory, "open"))

\* the handlers that run at once, each in a thread of the server
Handlers == {1, 2}

\* what a handler under way was called with: the route or event, the
\* request, the second at which an upload read the clock, the thread the
\* request met, the turn the agent takes for it, and the messages the
\* handler has emitted so far
Called(handler, req, clock, was, agent, emits) ==
    [handler |-> handler, req |-> req, clock |-> clock, was |-> was,
     agent |-> agent, emits |-> emits]

Uncalled ==
    Called("none", <<>>, 0, InitialThread,
           AgentTurn("answer", FALSE, NoFault), <<>>)

\* the call of the ingestion tool that the agent has under way within a
\* turn: the path it passed and what the call has done so far
ToolCall(path, trace) == [path |-> path, trace |-> trace]

NoTool == ToolCall(<<>>, <<>>)

\* a handler between its call of process_user_query and its assignment to
\* knowledge_thread: where it is, whether the record it passed is still
\* the one knowledge_thread names, otherwise the record it holds, what it
\* was called with, and the tool call its turn has under way
HandlerAt(pc, shares, obj, call, tool) ==
    [pc |-> pc, shares |-> shares, obj |-> obj, call |-> call, tool |-> tool]

Idle == HandlerAt("idle", FALSE, InitialThread, Uncalled, NoTool)

\* the handlers, and the number of turns that have returned a record
NoHandlers == [at |-> [h \in Handlers |-> Idle], returned |-> 0]

----------------------------------------------------------------------------
(* The tools, the calls of several callers under way at once *)

PathValues == {None, Str(<<>>)} \cup {Str(p) : p \in Paths}

\* the argument mappings a caller passes to the ingestion tool
AddArgs == {NoArgs} \cup {[k \in {"file_path"} |-> v] : v \in PathValues}

QueryValues == {None, Str(<<>>), Str(<<"q">>)}

QueryArgs == {NoArgs} \cup {[k \in {"query"} |-> v] : v \in QueryValues}

\* the argument mappings a caller passes to the extraction tool: no path,
\* an empty one, a readable PDF, a directory, a text file, a path at which
\* nothing exists, and a readable PDF with the areas to focus on
ExtractPaths == {PathA, PathC, PathD, PathE}

ExtractArgs ==
    {NoArgs, [k \in {"file_path"} |-> Str(<<>>)]}
    \cup {[k \in {"file_path"} |-> Str(p)] : p \in ExtractPaths}
    \cup {[k \in {"file_path", "focus_areas"} |->
             IF k = "file_path" THEN Str(PathA) ELSE List(<<"t">>)]}

\* the call that returned in the step just taken: the tool, its arguments,
\* what its check of existence found when it began (the file named, for
\* the query tool the persisted store) and what it left
Returned(tool, args, met, out) ==
    [tool |-> tool, args |-> args, met |-> met, out |-> out]

NoCall ==
    Returned("none", NoArgs, FALSE,
             Out(NoResult, NoStore, NoRegistry, <<>>, "none"))

\* the callers of the three PDF tools: each has at most one call under
\* way, and the calls of different callers run on one event loop
Callers == {1, 2}

\* a call under way: the await at which it is suspended, its arguments,
\* what its check of existence found, the lower-level calls it has made and
\* the store it has loaded and holds in memory
CallAt(pc, args, met, trace, held) ==
    [pc |-> pc, args |-> args, met |-> met, trace |-> trace, held |-> held]

NotCalling == CallAt("idle", NoArgs, FALSE, <<>>, NoStore)

\* the calls under way are numbered as they begin: a call that begins
\* takes the lowest number that no call under way has
Begins(c) ==
    /\ calls[c].pc = "idle"
    /\ \A d \in Callers : d < c => calls[d].pc # "idle"

Writers == {1, 2}

Init ==
    /\ files = HostPaths
    /\ vstore = NoStore
    /\ registry = NoRegistry
    /\ now = 0
    /\ last = NoCall
    /\ wpc = [w \in Writers |-> "idle"]
    /\ wlocal = [w \in Writers |-> <<>>]
    /\ wentry = [w \in Writers |-> NoEntry]
    /\ lk = NoLookup
    /\ thread = InitialThread
    /\ session = "open"
    /\ topics = NoMemory
    /\ web = NoRequest
    /\ updir = FALSE
    /\ handlers = NoHandlers
    /\ proc = Running
    /\ calls = [c \in Callers |-> NotCalling]

\* interface_flask.upload_file, lines 71-74: the upload folder is made and
\* an uploaded file is stored
SaveFile(p) ==
    /\ p \notin files
    /\ updir' = TRUE
    /\ files' = files \cup {p}
    /\ last' = NoCall
    /\ UNCHANGED <<vstore, registry, now, wpc, wlocal, wentry>>
    /\ UNCHANGED lookupvars
    /\ UNCHANGED calls
    /\ UNCHANGED <<thread, session, topics, web, handlers, proc>>

\* whether the file a call names exists
FileMet(args) ==
    LET file_path == ArgsGet(args, "file_path", Str(<<>>))
    IN ~Falsy(file_path) /\ PathExists(files, file_path.s)

\* the call of caller c returns: out is its result and what it leaves
Returns(c, tool, args, met, out) ==
    /\ last' = Returned(tool, args, met, out)
    /\ calls' = [calls EXCEPT ![c] = NotCalling]

\* the call of caller c is suspended at an await
Suspends(c, pc, args, met, trace, held) ==
    /\ calls' = [calls EXCEPT ![c] = CallAt(pc, args, met, trace, held)]
    /\ last' = NoCall

\* the ingestions under way, each of which will build a registry entry
Ingesting == {c \in Callers : calls[c].pc \in {"documents", "pages"}}

\* the faults that can meet a call of the ingestion tool before its first
\* await (none for a call that returns at its checks, lines 66-78), those
\* that can meet the store at its second step, and those that can meet it
\* after its second await
AddFaultsToLoad(args, fs) ==
    IF AddValidate(ArgsGet(args, "file_path", Str(<<>>)), fs) # NoResult
    THEN {NoFault}
    ELSE {f \in AddFaults : f.vs = "ok" /\ f.reg = "ok"}
AddFaultsAtStore == {f \in AddFaults : f.size = "ok" /\ f.reg = "ok"}
AddFaultsFromLoad == {f \in AddFaults : f.size = "ok" /\ f.vs = "ok"}

\* a call of the ingestion tool begins, lines 52-88: it returns at its
\* checks or at the file size, or it is suspended in generate_vector_store,
\* at the await of load_documents (line 148)
AddPdf(c, args, f) ==
    /\ Begins(c)
    /\ now + Cardinality(Ingesting) < MaxClock
    /\ IF AddReachesLoad(args, files, f)
       THEN /\ Suspends(c, "documents", args, FileMet(args), <<"getsize">>,
                         NoStore)
            /\ UNCHANGED <<vstore, registry>>
       ELSE \E out \in {add_async_invoke(args, files, vstore, registry, now, f)} :
               /\ Returns(c, "add", args, FileMet(args), out)
               /\ vstore' = out.vs
               /\ registry' = out.reg
    /\ UNCHANGED <<files, now, wpc, wlocal, wentry>>
    /\ UNCHANGED lookupvars
    /\ UNCHANGED webvars

\* the call is resumed in generate_vector_store, lines 88-98: the documents
\* are loaded, the store is loaded as it is persisted at this step, the
\* chunks are appended to it and it is persisted; the call is suspended at
\* the await of line 98, or it returns the error of what the load or the
\* store raised, or that of line 94 when there is no store
AddPdfStores(c, f) ==
    /\ calls[c].pc = "documents"
    /\ LET path == ArgsGet(calls[c].args, "file_path", Str(<<>>)).s
       IN \E g \in {generate_vector_store(<<path>>, files, vstore,
                                          AddSavesStore, f.vs)} :
             IF g.exc # "none"
             THEN /\ Returns(c, "add", calls[c].args, calls[c].met,
                             Out(AddCatch(g.exc, path), vstore, registry,
                                 <<"getsize">> \o g.trace, "vector_store"))
                  /\ UNCHANGED vstore
             ELSE IF g.ret = "none"
             THEN /\ Returns(c, "add", calls[c].args, calls[c].met,
                             Out(ErrNoVectorStore, vstore, registry,
                                 <<"getsize">> \o g.trace, "vector_store"))
                  /\ UNCHANGED vstore
             ELSE /\ vstore' = g.vs
                  /\ Suspends(c, "pages", calls[c].args, calls[c].met,
                              <<"getsize">> \o g.trace, NoStore)
    /\ UNCHANGED <<files, registry, now, wpc, wlocal, wentry>>
    /\ UNCHANGED lookupvars
    /\ UNCHANGED webvars

\* the call is resumed at line 98 and runs to its return, lines 98-127: the
\* file is loaded for its page count and the registry entry is written
\* with the time of this moment
AddPdfResumes(c, f) ==
    /\ calls[c].pc = "pages"
    /\ \E out \in {AddRegister(ArgsGet(calls[c].args, "file_path", Str(<<>>)).s,
                                files, vstore, registry, now, f,
                                calls[c].trace)} :
          /\ registry' = out.reg
          /\ Returns(c, "add", calls[c].args, calls[c].met, out)
          /\ now' = IF out.fail = "aload" THEN now ELSE now + 1
    /\ UNCHANGED <<files, vstore, wpc, wlocal, wentry>>
    /\ UNCHANGED lookupvars
    /\ UNCHANGED webvars

\* what the load of the store can meet in a query
LoadFaults == {"ok", "none", "FileNotFoundError", "RuntimeError"}

\* what the search can meet in the store the query holds
SearchEnvs(store) == {f \in QueryEnvs(store) : f.load = "ok"}

\* a call of the query tool begins, lines 46-74: it returns at its checks or
\* is suspended at the await of the load
QueryPdf(c, args) ==
    /\ Begins(c)
    /\ IF QueryValidate(ArgsGet(args, "query", Str(<<>>)), vstore) # NoResult
       THEN Returns(c, "query", args, vstore.exists,
                    query_async_invoke(args, vstore, registry,
                                       [load |-> "ok", search |-> "ok",
                                        hits |-> <<>>]))
       ELSE Suspends(c, "load", args, vstore.exists, <<>>, NoStore)
    /\ UNCHANGED <<files, vstore, registry, now, wpc, wlocal, wentry>>
    /\ UNCHANGED lookupvars
    /\ UNCHANGED webvars

\* the call is resumed at line 74 with the store as it is persisted now,
\* lines 74-80: it returns the error of a failed load, or holds the loaded
\* store and is suspended at the await of the search
QueryLoads(c, fault) ==
    /\ calls[c].pc = "load"
    /\ IF fault = "ok"
       THEN Suspends(c, "search", calls[c].args, calls[c].met,
                     <<"vs_load">>, vstore)
       ELSE Returns(c, "query", calls[c].args, calls[c].met,
                    query_async_invoke(calls[c].args, vstore, registry,
                                       [load |-> fault, search |-> "ok",
                                        hits |-> <<>>]))
    /\ UNCHANGED <<files, vstore, registry, now, wpc, wlocal, wentry>>
    /\ UNCHANGED lookupvars
    /\ UNCHANGED webvars

\* a variant of the query tool that persists the store it holds when it
\* returns
QuerySearchesAndSaves(c, f) ==
    /\ calls[c].pc = "search"
    /\ Returns(c, "query", calls[c].args, calls[c].met,
               [query_async_invoke(calls[c].args, calls[c].held, registry, f)
                   EXCEPT !.vs = vstore])
    /\ vstore' = calls[c].held
    /\ UNCHANGED <<files, registry, now, wpc, wlocal, wentry>>
    /\ UNCHANGED lookupvars
    /\ UNCHANGED webvars

\* the call is resumed at line 80 with the text the search found in the
\* store it holds, and runs to its return, lines 80-95
QuerySearches(c, f) ==
    /\ calls[c].pc = "search"
    /\ Returns(c, "query", calls[c].args, calls[c].met,
               [query_async_invoke(calls[c].args, calls[c].held, registry, f)
                   EXCEPT !.vs = vstore])
    /\ UNCHANGED <<files, vstore, registry, now, wpc, wlocal, wentry>>
    /\ UNCHANGED lookupvars
    /\ UNCHANGED webvars

\* a call of the extraction tool begins, lines 49-84: it returns at its
\* checks or is suspended at the await of the load
ExtractPdf(c, args) ==
    /\ Begins(c)
    /\ IF AddValidate(ArgsGet(args, "file_path", Str(<<>>)), files) # NoResult
       THEN Returns(c, "extract", args, FileMet(args),
                    extract_async_invoke(args, files, vstore, registry))
       ELSE Suspends(c, "extract", args, FileMet(args), <<>>, NoStore)
    /\ UNCHANGED <<files, vstore, registry, now, wpc, wlocal, wentry>>
    /\ UNCHANGED lookupvars
    /\ UNCHANGED webvars

\* the call is resumed at line 84 with the pages of the file as it is now,
\* and runs to its return, lines 84-120
ExtractPdfResumes(c) ==
    /\ calls[c].pc = "extract"
    /\ Returns(c, "extract", calls[c].args, calls[c].met,
               extract_async_invoke(calls[c].args, files, vstore, registry))
    /\ UNCHANGED <<files, vstore, registry, now, wpc, wlocal, wentry>>
    /\ UNCHANGED lookupvars
    /\ UNCHANGED webvars

Next ==
    \/ \E p \in UploadPaths : SaveFile(p)
    \/ \E c \in Callers, args \in AddArgs :
          \E f \in AddFaultsToLoad(args, files) : AddPdf(c, args, f)
    \/ \E c \in Callers, f \in AddFaultsAtStore : AddPdfStores(c, f)
    \/ \E c \in Callers, f \in AddFaultsFromLoad : AddPdfResumes(c, f)
    \/ \E c \in Callers, args \in QueryArgs : QueryPdf(c, args)
    \/ \E c \in Callers, fault \in LoadFaults : QueryLoads(c, fault)
    \/ \E c \in Callers :
          \E f \in SearchEnvs(calls[c].held) : QuerySearches(c, f)
    \/ \E c \in Callers, args \in ExtractArgs : ExtractPdf(c, args)
    \/ \E c \in Callers : ExtractPdfResumes(c)

Spec == Init /\ [][Next]_vars

----------------------------------------------------------------------------
(* _update_document_registry run by two writers at once: its read, its    *)
(* append, its open for writing and its write are one action each, and    *)
(* nothing orders the steps of one writer against those of the other.     *)

ValidPdfs == {PathA, PathB}

\* a writer enters _update_document_registry with the entry of its document
RaceBegin(w, p) ==
    /\ wpc[w] \in {"idle", "wrote", "failed"}
    /\ now < MaxWrites
    /\ wentry' = [wentry EXCEPT ![w] =
                    RegistryEntry(Basename(p), p, now, Len(ContentOf(p).pages),
                                  GetSize(p))]
    /\ wpc' = [wpc EXCEPT ![w] = "read"]
    /\ now' = now + 1
    /\ UNCHANGED <<files, vstore, registry, last, wlocal>>
    /\ UNCHANGED lookupvars
    /\ UNCHANGED calls
    /\ UNCHANGED webvars

\* lines 166-170
RaceRead(w) ==
    /\ wpc[w] = "read"
    /\ ~RegistryUnreadable(registry)
    /\ wlocal' = [wlocal EXCEPT ![w] = RegistryRead(registry)]
    /\ wpc' = [wpc EXCEPT ![w] = "append"]
    /\ UNCHANGED <<files, vstore, registry, now, last, wentry>>
    /\ UNCHANGED lookupvars
    /\ UNCHANGED calls
    /\ UNCHANGED webvars

\* line 173
RaceAppend(w) ==
    /\ wpc[w] = "append"
    /\ wlocal' = [wlocal EXCEPT ![w] = RegistryAppend(wlocal[w], wentry[w])]
    /\ wpc' = [wpc EXCEPT ![w] = "write"]
    /\ UNCHANGED <<files, vstore, registry, now, last, wentry>>
    /\ UNCHANGED lookupvars
    /\ UNCHANGED calls
    /\ UNCHANGED webvars

\* line 176: the writer opens the file for writing, which empties it
RaceOpen(w) ==
    /\ wpc[w] = "write"
    /\ registry' = RegistryTruncated
    /\ wpc' = [wpc EXCEPT ![w] = "dump"]
    /\ UNCHANGED <<files, vstore, now, last, wlocal, wentry>>
    /\ UNCHANGED lookupvars
    /\ UNCHANGED calls
    /\ UNCHANGED webvars

\* lines 177-179: the writer's text reaches the file it opened, from the
\* start of the file, and the update is logged
RaceWrite(w) ==
    /\ wpc[w] = "dump"
    /\ registry' = RegistryWrite(registry, wlocal[w])
    /\ wpc' = [wpc EXCEPT ![w] = "wrote"]
    /\ UNCHANGED <<files, vstore, now, last, wlocal, wentry>>
    /\ UNCHANGED lookupvars
    /\ UNCHANGED calls
    /\ UNCHANGED webvars

\* lines 166-170, 176 and 181-182: the read raises, or the open for writing
\* is refused and leaves the file as it was; the writer logs and returns
RaceRaise(w) ==
    /\ wpc[w] \in {"read", "write"}
    /\ wpc' = [wpc EXCEPT ![w] = "failed"]
    /\ UNCHANGED <<files, vstore, registry, now, last, wlocal, wentry>>
    /\ UNCHANGED lookupvars
    /\ UNCHANGED calls
    /\ UNCHANGED webvars

\* lines 177 and 181-182: the write to the opened file is refused and
\* nothing of the writer's text reaches it; the writer logs and returns
RaceWriteRefused(w) ==
    /\ wpc[w] = "dump"
    /\ wpc' = [wpc EXCEPT ![w] = "failed"]
    /\ UNCHANGED <<files, vstore, registry, now, last, wlocal, wentry>>
    /\ UNCHANGED lookupvars
    /\ UNCHANGED calls
    /\ UNCHANGED webvars

RaceNext ==
    \/ \E w \in Writers, p \in ValidPdfs : RaceBegin(w, p)
    \/ \E w \in Writers : RaceRead(w)
    \/ \E w \in Writers : RaceAppend(w)
    \/ \E w \in Writers : RaceOpen(w)
    \/ \E w \in Writers : RaceWrite(w)
    \/ \E w \in Writers : RaceRaise(w)
    \/ \E w \in Writers : RaceWriteRefused(w)

SpecRace == Init /\ [][RaceNext]_vars

----------------------------------------------------------------------------
(* The lookup tools called one after another; they hold no state, so a    *)
(* call leaves behind only its record.                                    *)

\* not a string: a null and a number
NonStrings == {None, IntVal(<<"7">>)}

SkuValues ==
    {Str(SkuDino), Str(Lower(SkuDino)), Str(SkuDino \o <<" ">>),
     Str(<<"T", "B", " ", "D", "I", "N", "O", " ", "0", "0", "3">>), Str(<<"X">>), Str(<<>>)} \cup NonStrings

PriorityValues ==
    {Str(Rush), Str(Lower(Rush)), Str(<<"R", "u", "s", "h">>), Str(Standard),
     Str(<<"L", "O", "W">>), Str(<<>>)} \cup NonStrings

\* a table key and spellings of it that differ in case, in " " against
\* "_", or in more than that
KeyValues(key) ==
    {Str(key), Str(Upper(key)), Str(Replace(key, "_", " ")),
     Str(Upper(Replace(key, "_", " "))), Str(key \o <<" ">>),
     Str(<<"x", " ", "Y">>), Str(<<"x", "_", "y">>), Str(<<>>)}
        \cup NonStrings

ArgValues(tool) ==
    CASE tool = "supplier" -> SkuValues
      [] tool = "compliance" -> KeyValues(KeyToys)
      [] tool = "production" -> KeyValues(KeyMoulding)
      [] OTHER -> KeyValues(KeyPvc)

LookupArgs(tool) ==
    IF tool = "supplier"
    THEN {NoArgs}
         \cup {[k \in {"sku"} |-> v] : v \in SkuValues}
         \cup {[k \in {"order_priority"} |-> v] : v \in PriorityValues}
         \cup {[sku |-> v, order_priority |-> o] :
                    v \in SkuValues, o \in PriorityValues}
    ELSE {NoArgs} \cup {[k \in {KeyArg(tool)} |-> v] : v \in ArgValues(tool)}

\* one call of a lookup tool
Lookup(tool, args) ==
    /\ lk' = [tool |-> tool, args |-> args, res |-> lookup_invoke(tool, args)]
    /\ UNCHANGED <<files, vstore, registry, now, last, wpc, wlocal, wentry,
                   calls>>
    /\ UNCHANGED webvars

LookupNext == \E tool \in LookupTools : \E args \in LookupArgs(tool) : Lookup(tool, args)

SpecLookup == Init /\ [][LookupNext]_vars

----------------------------------------------------------------------------
(* The web interface.  The server runs its handlers in threads: a handler  *)
(* that begins a turn of the agent is under way until the turn has        *)
(* returned and the handler has assigned the returned record, and other   *)
(* handlers run meanwhile.  A turn in which the agent calls the ingestion *)
(* tool is suspended where the tool awaits: before the store is           *)
(* persisted, and between that and the registry entry.  The routes that   *)
(* begin no turn read and answer in one step.  The clock runs and the     *)
(* external agent commits facts in between.                               *)

UploadRequest(kind, has_file, filename) ==
    [kind |-> kind, has_file |-> has_file, filename |-> filename]

FileNames ==
    {<<>>, <<"a", ".", "p", "d", "f">>, <<"b", ".", "P", "D", "F">>, <<"c", ".", "t", "x", "t">>, <<"p", "d", "f">>, <<"a", ".", "p", "d", "f", ".", "t">>}

UploadRequests ==
    {UploadRequest("too_large", FALSE, <<>>),
     UploadRequest("multipart", FALSE, <<>>)}
        \cup {UploadRequest("multipart", TRUE, n) : n \in FileNames}

\* the payload of a user_query event
Payloads ==
    {[mapping |-> TRUE, d |-> [k \in {"data"} |-> v]] :
            v \in {Str(<<"q">>), Str(<<>>), None}}
        \cup {[mapping |-> TRUE, d |-> NoArgs], [mapping |-> FALSE, d |-> NoArgs]}

ReadFaults == {"none", "OSError"}

Here == Met(files, updir, thread, topics, session)

\* the server takes requests until cleanup has stopped it or the process
\* has exited
Serving == proc.serving /\ proc.running

\* the agent and the file system matter only to a request that passes the
\* checks of upload_file, and the agent only to a query that is not empty
Passes(req) ==
    req.kind = "multipart" /\ req.has_file /\ req.filename # <<>>
        /\ allowed_file(req.filename)

EnvsFor(req) ==
    IF Passes(req) THEN UploadEnvs
    ELSE {UploadEnv("ok", "ok", AgentTurn("answer", FALSE, NoFault))}

\* the second at which upload_file reads the clock: the one of the last
\* upload, or the next
ClocksFor(req) ==
    IF Passes(req) THEN {c \in {now, now + 1} : c <= MaxClock} ELSE {now}

\* the handlers under way
Busy == {h \in Handlers : handlers.at[h].pc # "idle"}

\* the handlers under way are numbered as they begin: a handler that
\* begins takes the lowest number that no handler under way has
Enters(h) ==
    /\ handlers.at[h].pc = "idle"
    /\ \A g \in Handlers : g < h => handlers.at[g].pc # "idle"

\* the record a handler passed to process_user_query, as it is now
HeldBy(h) == IF handlers.at[h].shares THEN thread ELSE handlers.at[h].obj

\* the request a handler under way answers with once its turn has been
\* taken: the response of upload_file, or the messages handle_user_query
\* emits
Answer(call, agent) ==
    IF call.handler = "upload"
    THEN LET out == upload_file(call.req, files, updir, call.was,
                                call.clock, UploadEnv("ok", "ok", agent))
         IN Request("upload", call.req, out.resp, <<>>, out.turns, out.exc,
                    [Here EXCEPT !.thread = call.was])
    ELSE LET out == handle_user_query(call.req, call.was, agent)
         IN Request("user_query", call.req,
                    IF out.escaped = "none" THEN NoResp
                    ELSE Escaped(out.escaped),
                    out.emits, out.turns, out.exc,
                    [Here EXCEPT !.thread = call.was])

\* POST /upload, lines 52-80 and line 65 of process_user_query, while fewer
\* than max_uploads files are stored and fewer than max_turns turns are
\* completed or under way: the request is answered at its checks or at
\* the failure to store the file, or the file is stored, the instruction
\* is written into the record that knowledge_thread names and the handler
\* waits for the turn of the agent
UploadWithin(h, req, env, clock, max_uploads, max_turns) ==
    /\ Serving
    /\ Enters(h)
    /\ Cardinality(files \ HostPaths) < max_uploads
    /\ thread.num_input + Cardinality(Busy) < max_turns
    /\ IF Passes(req) /\ env.makedirs = "ok" /\ env.save = "ok"
       THEN /\ files' = files \cup {StoredPath(clock, req.filename)}
            /\ updir' = TRUE
            /\ thread' = process_pdf_upload(thread,
                                            StoredPath(clock, req.filename),
                                            env.agent).held
            /\ handlers' =
                  [handlers EXCEPT !.at[h] =
                      HandlerAt("turn", TRUE, thread',
                                Called("upload", req, clock, thread,
                                       Uncalled.agent, <<>>),
                                NoTool)]
            /\ web' = NoRequest
            /\ now' = clock
       ELSE \E out \in {upload_file(req, files, updir, thread, clock,
                                    env)} :
                /\ files' = out.files
                /\ updir' = out.updir
                /\ thread' = out.thread
                /\ web' = Request("upload", req, out.resp, <<>>, out.turns,
                                  out.exc, Here)
                /\ UNCHANGED <<handlers, now>>
    /\ UNCHANGED <<vstore, registry, last, wpc, wlocal, wentry, lk, calls,
                   session, topics, proc>>

Upload(h, req, env, clock) ==
    UploadWithin(h, req, env, clock, MaxUploads, MaxTurns)

\* a user_query event on /chat, lines 94-109 and line 65 of
\* process_user_query: the event is answered at the test of its data, or
\* the data is echoed to the clients (line 105) and written into the
\* record that knowledge_thread names, and the handler waits for the turn
\* of the agent with the echo emitted
UserQuery(h, json_data) ==
    /\ Serving
    /\ Enters(h)
    /\ thread.num_input + Cardinality(Busy) < MaxTurns
    /\ IF json_data.mapping /\ ~Falsy(ArgsGet(json_data.d, "data", Str(<<>>)))
       THEN /\ thread' = process_user_query(
                            thread, ArgsGet(json_data.d, "data", Str(<<>>)),
                            Uncalled.agent).held
            /\ handlers' =
                  [handlers EXCEPT !.at[h] =
                      HandlerAt("turn", TRUE, thread',
                                Called("user_query", json_data, now, thread,
                                       Uncalled.agent, QueryEcho(json_data)),
                                NoTool)]
            /\ web' = NoRequest
       ELSE /\ web' = Answer(Called("user_query", json_data, now, thread,
                                    Uncalled.agent, <<>>), Uncalled.agent)
            /\ UNCHANGED <<thread, handlers>>
    /\ UNCHANGED <<files, vstore, registry, now, last, wpc, wlocal, wentry,
                   lk, calls, session, topics, updir, proc>>

\* the stored files that an input names as an uploaded PDF
NamedIn(input, fs) ==
    {p \in fs \ HostPaths : input = UploadInstruction(p)}

\* the turns the agent can take on an input: it may call the ingestion
\* tool when the input is the instruction of an upload
TurnsFor(input, fs) ==
    IF NamedIn(input, fs) # {} THEN UploadTurns ELSE QueryTurns

\* the path the agent passes to the ingestion tool
PathNamed(input, fs) ==
    IF NamedIn(input, fs) = {} THEN <<>>
    ELSE CHOOSE p \in NamedIn(input, fs) : TRUE

\* line 66 of process_user_query has returned or raised: a handler whose
\* turn returned holds the new record, and one whose turn raised answers
\* with the error, or the exception leaves it, and it assigns nothing
TurnEnds(h, agent) ==
    IF TurnRaises(agent) # "none"
    THEN /\ web' = Answer(handlers.at[h].call, agent)
         /\ handlers' = [handlers EXCEPT !.at[h] = Idle]
    ELSE /\ web' = NoRequest
         /\ handlers' =
               [handlers EXCEPT
                   !.at[h] = HandlerAt("store", FALSE,
                                       process_once(HeldBy(h), agent),
                                       [handlers.at[h].call EXCEPT
                                            !.agent = agent],
                                       NoTool),
                   !.returned = @ + 1]

\* the agent's call of the ingestion tool has returned
ToolReturns(path, out) ==
    last' = Returned("add", [k \in {"file_path"} |-> Str(path)], TRUE, out)

\* line 66 of process_user_query: the agent takes the turn on the input it
\* reads from the record the handler passed, as that record is now.  On
\* the instruction of an upload it may call the ingestion tool with the
\* path the instruction names: the call returns at its checks, or it is
\* suspended at the await of load_documents (add_pdf_to_knowledge.py line
\* 148, within line 88).  A turn without such a call returns or raises.
Turn(h, agent) ==
    /\ proc.running
    /\ handlers.at[h].pc = "turn"
    /\ agent \in TurnsFor(HeldBy(h).user_input, files)
    /\ LET path == PathNamed(HeldBy(h).user_input, files)
           args == [k \in {"file_path"} |-> Str(path)]
       IN IF agent.adds /\ AddReachesLoad(args, files, agent.fault)
          THEN /\ handlers' =
                     [handlers EXCEPT !.at[h] =
                         HandlerAt("documents", handlers.at[h].shares,
                                   handlers.at[h].obj,
                                   [handlers.at[h].call EXCEPT
                                        !.agent = agent],
                                   ToolCall(path, <<"getsize">>))]
               /\ web' = NoRequest
               /\ UNCHANGED <<vstore, registry, last>>
          ELSE /\ IF agent.adds
                  THEN \E out \in {add_async_invoke(args, files, vstore,
                                                    registry, now,
                                                    agent.fault)} :
                          /\ vstore' = out.vs
                          /\ registry' = out.reg
                          /\ ToolReturns(path, out)
                  ELSE UNCHANGED <<vstore, registry, last>>
               /\ TurnEnds(h, agent)
    /\ proc' = InvokedOn(session, proc)
    /\ UNCHANGED <<files, now, wpc, wlocal, wentry, lk, calls, thread,
                   session, topics, updir>>

\* the tool call of the turn is resumed in generate_vector_store,
\* add_pdf_to_knowledge.py lines 88-98: the store is persisted with the
\* chunks of the document and the call is suspended at the await of line
\* 98, or the call returns the error of what was raised and the turn
\* returns
TurnStores(h) ==
    /\ proc.running
    /\ handlers.at[h].pc = "documents"
    /\ LET tool == handlers.at[h].tool
           agent == handlers.at[h].call.agent
       IN \E g \in {generate_vector_store(<<tool.path>>, files, vstore,
                                          AddSavesStore, agent.fault.vs)} :
             IF g.exc # "none" \/ g.ret = "none"
             THEN /\ ToolReturns(tool.path,
                                 Out(IF g.exc # "none"
                                     THEN AddCatch(g.exc, tool.path)
                                     ELSE ErrNoVectorStore,
                                     vstore, registry, tool.trace \o g.trace,
                                     "vector_store"))
                  /\ TurnEnds(h, agent)
                  /\ UNCHANGED vstore
             ELSE /\ vstore' = g.vs
                  /\ handlers' =
                        [handlers EXCEPT
                            !.at[h].pc = "pages",
                            !.at[h].tool = ToolCall(tool.path,
                                                    tool.trace \o g.trace)]
                  /\ web' = NoRequest
                  /\ UNCHANGED last
    /\ UNCHANGED <<files, registry, now, wpc, wlocal, wentry, lk, calls,
                   thread, session, topics, updir, proc>>

\* the tool call of the turn is resumed at line 98 and runs to its return,
\* add_pdf_to_knowledge.py lines 98-127: the file is loaded for its page
\* count and the registry entry is written; then the turn returns
TurnRegisters(h) ==
    /\ proc.running
    /\ handlers.at[h].pc = "pages"
    /\ LET tool == handlers.at[h].tool
           agent == handlers.at[h].call.agent
       IN \E out \in {AddRegister(tool.path, files, vstore, registry, now,
                                  agent.fault, tool.trace)} :
             /\ registry' = out.reg
             /\ ToolReturns(tool.path, out)
             /\ TurnEnds(h, agent)
    /\ UNCHANGED <<files, vstore, now, wpc, wlocal, wentry, lk, calls,
                   thread, session, topics, updir, proc>>

\* lines 80 and 109 assign the returned record to knowledge_thread and the
\* handler answers; a handler that passed the record named until now
\* keeps that record
Assigns(h) ==
    /\ proc.running
    /\ handlers.at[h].pc = "store"
    /\ thread' = handlers.at[h].obj
    /\ web' = Answer(handlers.at[h].call, handlers.at[h].call.agent)
    /\ handlers' =
          [handlers EXCEPT
             !.at = [g \in Handlers |->
                        IF g = h THEN Idle
                        ELSE IF handlers.at[g].shares
                        THEN [handlers.at[g] EXCEPT !.shares = FALSE,
                                                    !.obj = thread]
                        ELSE handlers.at[g]]]
    /\ UNCHANGED <<files, vstore, registry, now, last, wpc, wlocal, wentry,
                   lk, calls, session, topics, updir, proc>>

\* a GET that reads and answers
Get(handler, req, resp) ==
    /\ Serving
    /\ web' = Request(handler, req, resp, <<>>, 0, "none", Here)
    /\ UNCHANGED <<files, vstore, registry, now, last, wpc, wlocal, wentry,
                   lk, calls, thread, session, topics, updir, handlers, proc>>

GetIndex(fault) == Get("index", <<>>, index(fault))

GetTopics(fault) == Get("topics", <<>>, get_topics(topics, fault))

GetTopicFacts(topic, fault) ==
    Get("topic_facts", topic, get_topic_facts(topic, topics, fault))

GetDocuments(fault) == Get("documents", <<>>, get_documents(registry, fault))

GetStats(fault) == Get("stats", <<>>, get_stats(registry, topics, fault))

\* GET /shutdown
Shutdown(fault) ==
    /\ Serving
    /\ \E out \in {shutdown(session, fault)} :
          /\ session' = out.session
          /\ proc' = [InvokedOn(session, proc) EXCEPT
                         !.serving = ~out.stopped]
          /\ web' = Request("shutdown", <<>>, out.resp, <<>>, 0, "none", Here)
    /\ UNCHANGED <<files, vstore, registry, now, last, wpc, wlocal, wentry,
                   lk, calls, thread, topics, updir, handlers>>

\* atexit.register(cleanup): the process exits and the hook runs cleanup
Exit(fault) ==
    /\ proc.running
    /\ session' = cleanup(session, fault).session
    /\ proc' = [InvokedOn(session, proc) EXCEPT !.running = FALSE,
                                                !.serving = FALSE]
    /\ web' = NoRequest
    /\ UNCHANGED <<files, vstore, registry, now, last, wpc, wlocal, wentry,
                   lk, calls, thread, topics, updir, handlers>>

\* the external agent commits a fact to the topic memory
AgentCommitsToMemory(topic) ==
    /\ CountFacts(topics) < MaxFacts
    /\ topics' = commit_to_memory(topics, topic)
    /\ web' = NoRequest
    /\ UNCHANGED <<files, vstore, registry, now, last, wpc, wlocal, wentry,
                   lk, calls, thread, session, updir, handlers, proc>>

\* the requests and events the server handles, step by step
RequestsNext ==
    \/ \E h \in Handlers, req \in UploadRequests :
          \E env \in EnvsFor(req), clock \in ClocksFor(req) :
              Upload(h, req, env, clock)
    \/ \E h \in Handlers, json_data \in Payloads : UserQuery(h, json_data)
    \/ \E h \in Handlers, agent \in UploadTurns \cup QueryTurns : Turn(h, agent)
    \/ \E h \in Handlers : TurnStores(h)
    \/ \E h \in Handlers : TurnRegisters(h)
    \/ \E h \in Handlers : Assigns(h)
    \/ \E fault \in {"none", "TemplateNotFound"} : GetIndex(fault)
    \/ \E fault \in ReadFaults : GetTopics(fault)
    \/ \E topic \in TopicNames, fault \in ReadFaults : GetTopicFacts(topic, fault)
    \/ \E fault \in ReadFaults : GetDocuments(fault)
    \/ \E fault \in ReadFaults : GetStats(fault)

\* the server and, in between, the external agent at the topic memory
WebNext ==
    \/ RequestsNext
    \/ \E topic \in CommitTopics : AgentCommitsToMemory(topic)

SpecWeb == Init /\ [][WebNext]_vars

\* the server taking uploads only, of names that allowed_file accepts
AcceptedNames ==
    {<<"a", ".", "p", "d", "f">>, <<"b", ".", "P", "D", "F">>, <<".", "p", "d", "f">>, <<"a", " ", "b", ".", "p", "d", "f">>, <<"a", "_", "b", ".", "p", "d", "f">>}

UploadsNext ==
    \/ \E h \in Handlers, n \in AcceptedNames :
          \E env \in UploadEnvs, clock \in {c \in {now, now + 1} : c <= MaxClock} :
              UploadWithin(h, UploadRequest("multipart", TRUE, n), env,
                           clock, MaxStored, MaxStored)
    \/ \E h \in Handlers, agent \in UploadTurns : Turn(h, agent)
    \/ \E h \in Handlers : TurnStores(h)
    \/ \E h \in Handlers : TurnRegisters(h)
    \/ \E h \in Handlers : Assigns(h)

SpecUploads == Init /\ [][UploadsNext]_vars

\* the server from its start to the exit of the process
LifecycleNext ==
    \/ RequestsNext
    \/ \E fault \in CleanupFaults : Shutdown(fault)
    \/ \E fault \in CleanupFaults : Exit(fault)

SpecLifecycle == Init /\ [][LifecycleNext]_vars

----------------------------------------------------------------------------
(* Properties *)

IsPrefix(a, b) == Len(a) <= Len(b) /\ SubSeq(b, 1, Len(a)) = a

Events(trace) == {trace[i] : i \in 1..Len(trace)}

Before(trace, a, b) ==
    \E i, j \in 1..Len(trace) : i < j /\ trace[i] = a /\ trace[j] = b

\* the value the caller gave for a key, "" when the key is absent
Given(key) == ArgsGet(last.args, key, Str(<<>>))

\* the last four characters are ".pdf" in either letter case
HasPdfSuffix(s) ==
    /\ Len(s) >= 4
    /\ s[Len(s) - 3] = "."
    /\ s[Len(s) - 2] \in {"p", "P"}
    /\ s[Len(s) - 1] \in {"d", "D"}
    /\ s[Len(s)] \in {"f", "F"}

HasNonSpace(t) == \E i \in 1..Len(t) : t[i] \notin Whitespace

IsAddSuccess(r) == r.kind = "return" /\ r.pre = "Successfully added "

\* the ingestion tool's input passed its three checks
AddInputValid ==
    /\ last.tool = "add"
    /\ ~Falsy(Given("file_path"))
    /\ last.met
    /\ HasPdfSuffix(Given("file_path").s)

\* this step is a call of the ingestion tool that returned its success
\* message (only such a call advances the clock)
AddSucceeds == now' = now + 1 /\ last'.tool = "add" /\ IsAddSuccess(last'.out.res)

\* C1: whenever the ingestion tool returns its success message, the store
\* was persisted before the registry was updated, and the registry holds
\* exactly one entry more than before: the entry of this document, with
\* status "processed" and the page count of the message.
C1_SuccessExtendsRegistry ==
    [][AddSucceeds =>
        /\ Before(last'.out.trace, "vs_save", "registry")
        /\ vstore'.exists
        /\ Len(registry'.documents) = Len(registry.documents) + 1
        /\ IsPrefix(registry.documents, registry'.documents)
        /\ LET e == registry'.documents[Len(registry'.documents)]
               file_path == ArgsGet(last'.args, "file_path", Str(<<>>)).s
           IN /\ e.filename = last'.out.res.path
              /\ e.file_path = file_path
              /\ e.page_count = last'.out.res.n
              /\ e.file_size_bytes = GetSize(file_path)
              /\ e.status = "processed"]_vars

\* the ingestion tool returned the error of the first check that its input
\* fails, and made no lower-level call
RejectedInOrder ==
    /\ StartsWithError(last.out.res)
    /\ last.out.trace = <<>>
    /\ Falsy(Given("file_path")) => last.out.res = ErrMissingFilePath
    /\ (~Falsy(Given("file_path")) /\ ~last.met)
          => last.out.res = ErrFileNotFound(Given("file_path").s)
    /\ (~Falsy(Given("file_path")) /\ last.met)
          => last.out.res = ErrMustBePdf(Given("file_path").s)

\* C2: a missing or empty file_path, a path at which no file exists, and a
\* path that does not end in ".pdf" (in either letter case) each give an
\* "Error:" string and leave the store and the registry untouched; the
\* checks come in that order, so a path that neither exists nor ends in
\* ".pdf" is reported as not found.
C2_AddRejectsBadInput ==
    [][(last'.tool = "add" /\ ~AddInputValid') =>
          /\ RejectedInOrder'
          /\ vstore' = vstore
          /\ registry' = registry]_vars

\* a path that neither exists nor ends in ".pdf" was reported as not found
C2_Witness ==
    /\ last.tool = "add"
    /\ Given("file_path") = Str(PathF)
    /\ ~last.met
    /\ ~HasPdfSuffix(PathF)
    /\ last.out.res = ErrFileNotFound(PathF)

\* C3: once the input has passed the checks, a failure of the file-size
\* lookup, of the store's load or creation, or of the PDF load for the page
\* count gives an "Error:" string; no call of the ingestion tool raises.
C3_AddFailuresBecomeErrors ==
    /\ last.tool = "add" => last.out.res.kind = "return"
    /\ (AddInputValid /\ last.out.fail \in {"getsize", "vector_store", "aload"})
          => StartsWithError(last.out.res)

\* the store's creation raised an exception that has no handler of its own
\* and the call returned an "Error:" string
C3_Witness ==
    /\ AddInputValid
    /\ last.out.fail = "vector_store"
    /\ last.out.res.exc = "RuntimeError"
    /\ StartsWithError(last.out.res)

\* C4: while no store has been persisted, a query that is not empty gets
\* the "No knowledge base found" error, and neither a load nor a search
\* is performed.
C4_QueryBeforeIngestion ==
    (last.tool = "query" /\ ~last.met /\ ~Falsy(Given("query"))) =>
        /\ last.out.res = ErrNoKnowledgeBase
        /\ Events(last.out.trace) \cap {"vs_load", "search"} = {}

C4_Witness ==
    /\ last.tool = "query"
    /\ ~last.met
    /\ Given("query") = Str(<<"q">>)
    /\ last.out.res = ErrNoKnowledgeBase

\* C5: an absent or empty query gets the "Missing required input 'query'"
\* error whether or not a store exists.
C5_EmptyQueryFirst ==
    (last.tool = "query" /\ Falsy(Given("query"))) =>
        last.out.res = ErrMissingQuery

\* an empty query was made while no store existed
C5_Witness ==
    /\ last.tool = "query"
    /\ Falsy(Given("query"))
    /\ ~last.met
    /\ last.out.res = ErrMissingQuery

\* C6: for a query that is not empty and a store that exists, the result is
\* the text of the similarity search when that text has a character that
\* is not white space, the "No relevant information" message when it has
\* none, and an "Error:" string when the store fails to load.
C6_QueryAnswer ==
    (last.tool = "query" /\ last.met /\ ~Falsy(Given("query"))) =>
        /\ last.out.fail = "vs_load" => StartsWithError(last.out.res)
        /\ (last.out.fail = "none" /\ HasNonSpace(last.out.got))
              => last.out.res = RawText(last.out.got)
        /\ (last.out.fail = "none" /\ ~HasNonSpace(last.out.got))
              => last.out.res = NoRelevant

\* the search gave a text of white space only
C6_Witness ==
    /\ last.tool = "query"
    /\ last.out.fail = "none"
    /\ "search" \in Events(last.out.trace)
    /\ last.out.got # <<>>
    /\ ~HasNonSpace(last.out.got)
    /\ last.out.res = NoRelevant

\* the number of chunks of the store that come from the file
RECURSIVE ChunksFrom(_, _)
ChunksFrom(chunks, path) ==
    IF chunks = <<>> THEN 0
    ELSE (IF Head(chunks).src = path THEN 1 ELSE 0)
            + ChunksFrom(Tail(chunks), path)

\* the number of entries of the registry for the file
RECURSIVE EntriesFor(_, _)
EntriesFor(documents, path) ==
    IF documents = <<>> THEN 0
    ELSE (IF Head(documents).file_path = path THEN 1 ELSE 0)
            + EntriesFor(Tail(documents), path)

\* C7: when a PDF that has an entry in the registry from an earlier
\* successful ingestion is ingested again with success, the registry has
\* one more entry for it, two or more in all, and the store holds each of
\* its chunks as often as the registry has entries for it.
C7_SamePdfTwice ==
    [][LET p == ArgsGet(last'.args, "file_path", Str(<<>>)).s
       IN (AddSucceeds /\ EntriesFor(registry.documents, p) > 0) =>
             /\ EntriesFor(registry'.documents, p)
                    = EntriesFor(registry.documents, p) + 1
             /\ ChunksFrom(vstore'.chunks, p)
                    = EntriesFor(registry'.documents, p)
                         * Len(ContentOf(p).pages)]_vars

\* C8: over any sequence of calls of the three tools, overlapping ones
\* included, the persisted store changes only in a call of the ingestion
\* tool (in the step in which generate_vector_store persists it), and only
\* by growing at its end: it is never removed, and the chunks it held stay
\* where they were.
C8_StoreAppendOnly ==
    [][/\ IsPrefix(vstore.chunks, vstore'.chunks)
       /\ vstore.exists => vstore'.exists
       /\ vstore' # vstore =>
             \E c \in Callers : calls[c].pc = "documents" /\ calls'[c].pc = "pages"]_vars

\* two ingestions that overlap have both persisted the store, which holds
\* the chunks of the one after those of the other
C8_Witness ==
    /\ \A c \in Callers : calls[c].pc = "pages"
    /\ Len(vstore.chunks) >= 2
    /\ vstore.chunks[1].src # vstore.chunks[Len(vstore.chunks)].src

\* the registry never loses or changes an entry
RegistryGrowsAtEnd ==
    [][IsPrefix(registry.documents, registry'.documents)]_vars

\* C9: the registry's list in an earlier state is a prefix of the list in
\* every later state, and each call of the ingestion tool that returns its
\* success message adds exactly one entry.
C9_RegistryAppendOnly ==
    [][/\ IsPrefix(registry.documents, registry'.documents)
       /\ AddSucceeds => Len(registry'.documents) = Len(registry.documents) + 1
       /\ ~AddSucceeds => registry'.documents = registry.documents]_vars

Front(s) == SubSeq(s, 1, Len(s) - 1)

\* two writers have both written, each after reading the same registry
BothWroteFromSameRead(v, w) ==
    /\ v # w
    /\ wpc[v] = "wrote"
    /\ wpc[w] = "wrote"
    /\ Front(wlocal[v]) = Front(wlocal[w])

\* C10: when two writers read the same registry and both write, the file
\* never holds the entries of both: where json.load accepts it, it is what
\* one of them wrote, so the entry of the other is missing from it.
C10_LostUpdate ==
    \A v, w \in Writers :
        BothWroteFromSameRead(v, w) =>
            /\ ~RegistryUnreadable(registry) =>
                    registry.documents \in {wlocal[v], wlocal[w]}
            /\ ~(/\ wentry[v] \in Events(registry.documents)
                 /\ wentry[w] \in Events(registry.documents))

\* both writers returned without an error and the registry lacks the entry
\* of the first
C10_Witness ==
    /\ BothWroteFromSameRead(1, 2)
    /\ wentry[1] \notin Events(registry.documents)
    /\ wentry[2] \in Events(registry.documents)

----------------------------------------------------------------------------
(* Properties of the lookup tools *)

\* the value the caller gave a lookup tool for its key, with the default
\* of the tool when the key is absent
LookupGiven ==
    ArgsGet(lk.args, KeyArg(lk.tool),
            CASE lk.tool = "supplier" -> Str(<<>>)
              [] lk.tool = "compliance" -> Str(KeyToys)
              [] lk.tool = "production" -> Str(KeyMoulding)
              [] OTHER -> Str(KeyPvc))

\* the priority the caller gave, with its default
PriorityGiven == ArgsGet(lk.args, "order_priority", Str(Standard))

\* the key the tool looks up is a key of its table: the SKU as given, the
\* other keys normalised
KeyKnown ==
    /\ LookupGiven.t = "str"
    /\ (IF lk.tool = "supplier" THEN LookupGiven.s ELSE Normalise(LookupGiven.s))
            \in TableKeys(lk.tool)

\* the key the tool looks up is not a key of its table; a value that is
\* not a string can be looked up only by the supplier tool
KeyUnknown ==
    /\ ~KeyKnown
    /\ lk.tool = "supplier" \/ LookupGiven.t = "str"

\* the not-found error string of the tool called
NotFoundError ==
    CASE lk.tool = "supplier" -> ErrSkuNotFound(LookupGiven)
      [] lk.tool = "compliance" -> ErrCategoryNotFound(Normalise(LookupGiven.s))
      [] lk.tool = "production" -> ErrParameterNotFound(Normalise(LookupGiven.s))
      [] OTHER -> ErrFailureModeNotFound(Normalise(LookupGiven.s))

\* C14: for each of the four lookup tools, when the key looked up is not a
\* key of the table the call returns the tool's "Error: ... not found ..."
\* string and never a dictionary; a dictionary is returned only for a key of
\* the table, and it carries every field of the tool's output shape.
C14_UnknownKeyIsError ==
    lk.tool \in LookupTools =>
        /\ KeyUnknown => lk.res = NotFoundError /\ StartsWithError(lk.res)
        /\ IsDict(lk.res) =>
              KeyKnown /\ OutputShape(lk.tool) \subseteq DOMAIN lk.res.dict

\* the same with every argument a string or absent: this holds
UnknownKeyIsErrorForStrings ==
    (lk.tool \in LookupTools /\ \A k \in DOMAIN lk.args : lk.args[k].t = "str") =>
        /\ KeyUnknown => lk.res = NotFoundError /\ StartsWithError(lk.res)
        /\ IsDict(lk.res) =>
              KeyKnown /\ OutputShape(lk.tool) \subseteq DOMAIN lk.res.dict

\* the field occurs as a key of the supplier result, of one of its
\* suppliers, or of the test results of one of its suppliers
HasKeyAnywhere(d, field) ==
    \/ field \in DOMAIN d
    \/ \E i \in 1..Len(d.approved_suppliers) :
          \/ field \in DOMAIN d.approved_suppliers[i]
          \/ field \in DOMAIN d.approved_suppliers[i].ms4401_v3_2_results

\* values the internal field may hold in a table
OnsetValues == {OnsetA, OnsetB, 0}

\* C15: for every sku and order_priority the supplier tool's result holds
\* the key plasticiser_thermal_degradation_onset_celsius at no nesting
\* level, and it is the result the tool gives over every table that differs
\* from the module's table only in the values of that field.
C15_HiddenFieldNeverLeaks ==
    lk.tool = "supplier" =>
        /\ IsDict(lk.res) => ~HasKeyAnywhere(lk.res.dict, HiddenField)
        /\ \A a, b \in OnsetValues :
              supplier_invoke(lk.args, SupplierData(a, b)) = lk.res

C15_Witness ==
    /\ lk.tool = "supplier"
    /\ IsDict(lk.res)
    /\ Len(lk.res.dict.approved_suppliers) = 2
    /\ HiddenField \in DOMAIN SUPPLIER_DATA[SkuDino].approved_suppliers[1]

HasAdvisory(r) == IsDict(r) /\ "rush_advisory" \in DOMAIN r.dict

\* C16 as stated: for a known SKU the result holds rush_advisory when
\* order_priority is the string "RUSH", and holds none for any other
\* order_priority, absent included.
C16_AdvisoryOnlyForRUSH ==
    (lk.tool = "supplier" /\ KeyKnown) =>
        /\ ("order_priority" \in DOMAIN lk.args /\ PriorityGiven = Str(Rush))
              => HasAdvisory(lk.res)
        /\ ("order_priority" \notin DOMAIN lk.args \/ PriorityGiven # Str(Rush))
              => ~HasAdvisory(lk.res)

\* C16 amended: for a known SKU, a string order_priority gives a dictionary
\* that holds rush_advisory exactly when the string, upper-cased, is "RUSH";
\* an absent order_priority gives a dictionary without it; an order_priority
\* that is not a string gives no result, the call raises AttributeError.
C16_AdvisoryForAnyCaseOfRush ==
    (lk.tool = "supplier" /\ KeyKnown) =>
        /\ "order_priority" \notin DOMAIN lk.args =>
              IsDict(lk.res) /\ ~HasAdvisory(lk.res)
        /\ PriorityGiven.t = "str" =>
              /\ IsDict(lk.res)
              /\ HasAdvisory(lk.res) <=> Upper(PriorityGiven.s) = Rush
        /\ PriorityGiven.t # "str" => lk.res = Raised("AttributeError")

C16_Witness ==
    /\ lk.tool = "supplier"
    /\ KeyKnown
    /\ HasAdvisory(lk.res)
    /\ PriorityGiven # Str(Rush)

\* two key values that differ only in letter case or in " " against "_"
SameUpToCaseAndSpace(v, w) ==
    v.t = "str" /\ w.t = "str" /\ Normalise(v.s) = Normalise(w.s)

\* the call just made, with another value for the tool's key
WithKey(w) ==
    [k \in DOMAIN lk.args \cup {KeyArg(lk.tool)} |->
        IF k = KeyArg(lk.tool) THEN w ELSE lk.args[k]]

\* C17 as stated: each of the four tools gives the same result for two keys
\* that differ only in letter case or in space against underscore.
C17_AllToolsNormalise ==
    lk.tool \in LookupTools =>
        \A w \in ArgValues(lk.tool) :
            SameUpToCaseAndSpace(LookupGiven, w) =>
                lookup_invoke(lk.tool, WithKey(w)) = lk.res

\* C17 amended: the compliance, production-parameter and failure-mode tools
\* give the same result for two keys that differ only in letter case or in
\* space against underscore; the supplier tool looks its SKU up as given, so
\* it returns a dictionary for the SKU of the table exactly and the
\* not-found error for every other spelling of it.
C17_ThreeToolsNormalise ==
    /\ lk.tool \in LookupTools \ {"supplier"} =>
          \A w \in ArgValues(lk.tool) :
              SameUpToCaseAndSpace(LookupGiven, w) =>
                  lookup_invoke(lk.tool, WithKey(w)) = lk.res
    /\ (lk.tool = "supplier" /\ PriorityGiven.t = "str") =>
          /\ IsDict(lk.res) <=> LookupGiven = Str(SkuDino)
          /\ ~IsDict(lk.res) => lk.res = ErrSkuNotFound(LookupGiven)

C17_Witness ==
    /\ lk.tool = "compliance"
    /\ IsDict(lk.res)
    /\ "product_category" \in DOMAIN lk.args
    /\ LookupGiven # Str(KeyToys)

\* C18: every call of every tool returns a structured result or a string
\* that starts with "Error:", whatever its arguments, a null or a value that
\* is not a string included; no call raises.
C18_NoToolRaises ==
    /\ last.out.res.kind # "raise"
    /\ lk.res.kind # "raise"

----------------------------------------------------------------------------
(* Properties of the web interface *)

\* this request left the files, the upload folder and the thread as it met
\* them, and began no agent turn
NothingWrittenNoTurn ==
    /\ files = web.pre.files
    /\ updir = web.pre.updir
    /\ thread = web.pre.thread
    /\ web.turns = 0

IsError(resp, status, error) ==
    /\ resp.kind = "json"
    /\ resp.status = status
    /\ resp.key = "error"
    /\ resp.error = error

\* C11: an upload request with no 'file' part, with an empty file name, or
\* with a file name whose last extension is not "pdf" in any letter case, is
\* answered with a JSON error of status 400, and nothing is written to the
\* file system and no agent turn is begun.
C11_UploadRejectsBeforeAnyWrite ==
    (web.handler = "upload" /\ web.req.kind = "multipart") =>
        /\ ~web.req.has_file =>
              IsError(web.resp, 400, "No file part in request")
                  /\ NothingWrittenNoTurn
        /\ (web.req.has_file /\ web.req.filename = <<>>) =>
              IsError(web.resp, 400, "No file selected") /\ NothingWrittenNoTurn
        /\ (web.req.has_file /\ web.req.filename # <<>>
                /\ ~HasPdfSuffix(web.req.filename)) =>
              IsError(web.resp, 400, "Only PDF files are allowed")
                  /\ NothingWrittenNoTurn

C11_Witness ==
    /\ web.handler = "upload"
    /\ web.req.has_file
    /\ \E i \in 1..Len(web.req.filename) : web.req.filename[i] = "."
    /\ ~HasPdfSuffix(web.req.filename)
    /\ web.resp.status = 400

\* the value an event's payload carries under "data"
DataGiven == ArgsGet(web.req.d, "data", Str(<<>>))

\* a user_query event whose handler is under way: the turn of the agent
\* has not returned, or the record it returned is not yet assigned
QueryUnderWay(h) ==
    handlers.at[h].pc # "idle" /\ handlers.at[h].call.handler = "user_query"

\* C12 as stated: every user_query event is answered by a user_message and
\* then an agent_response, in that order.
C12_EchoThenResponse ==
    web.handler = "user_query" =>
        /\ Len(web.emits) = 2
        /\ web.emits[1].event = "user_message"
        /\ web.emits[2].event = "agent_response"

\* C12 amended: a user_query event whose payload is a mapping with a
\* non-empty "data" is answered by a user_message that echoes the data,
\* emitted before the turn begins, and then, once the turn has returned or
\* raised an Exception, by one agent_response; while the turn is under way
\* the echo is the only message of the event, and it stays the only one
\* when the turn raises what is no Exception, which leaves the handler.
\* An event whose "data" is empty, null or absent is answered by the
\* agent_response "Error: Empty query received." alone; one whose payload
\* is not a mapping is answered by nothing, the handler raises.
C12_EchoThenResponseUnlessEmpty ==
    /\ \A h \in Handlers :
          QueryUnderWay(h) =>
              handlers.at[h].call.emits =
                  <<Message("user_message", "",
                            ArgsGet(handlers.at[h].call.req.d, "data",
                                    Str(<<>>)).s)>>
    /\ web.handler = "user_query" =>
          /\ (web.req.mapping /\ ~Falsy(DataGiven)) =>
                /\ web.emits # <<>>
                /\ web.emits[1] = Message("user_message", "", DataGiven.s)
                /\ IF web.resp.kind = "raise"
                   THEN Len(web.emits) = 1 /\ ~CaughtAsException(web.exc)
                   ELSE /\ Len(web.emits) = 2
                        /\ web.emits[2].event = "agent_response"
          /\ (web.req.mapping /\ Falsy(DataGiven)) =>
                web.emits = <<Message("agent_response",
                                      "Error: Empty query received.", <<>>)>>
          /\ ~web.req.mapping =>
                web.emits = <<>> /\ web.resp = Escaped("AttributeError")

\* one event has been answered by its echo and the error of its turn
\* while the turn of another is under way, whose echo has been emitted
C12_Witness ==
    /\ web.handler = "user_query"
    /\ web.exc # "none"
    /\ Len(web.emits) = 2
    /\ web.emits[1].event = "user_message"
    /\ web.emits[2].lit = "Error processing query: "
    /\ \E h \in Handlers :
          /\ QueryUnderWay(h)
          /\ handlers.at[h].pc = "turn"
          /\ Len(handlers.at[h].call.emits) = 1

HttpRoutes ==
    {"index", "upload", "topics", "topic_facts", "documents", "stats",
     "shutdown"}

\* C13: every HTTP route handler catches every exception and answers with
\* a JSON error body of status 400 or 500; no exception leaves a handler.
C13_RoutesCatchEverything ==
    web.handler \in HttpRoutes =>
        /\ web.resp.kind # "raise"
        /\ (web.resp.kind = "json" /\ web.resp.key = "error") =>
              web.resp.status \in {400, 500}

\* what GET /topics and GET /topics/<name> answered for the memory they met
TopicAnswers ==
    /\ (web.handler = "topics" /\ ~web.pre.topics.exists) =>
          web.resp = Json("topics", <<>>)
    /\ (web.handler = "topics" /\ web.pre.topics.exists
            /\ web.resp.status = 200) =>
          web.resp = Json("topics", TopicsOf(web.pre.topics))
    /\ (web.handler = "topic_facts" /\ ~web.pre.topics.exists) =>
          web.resp.value.facts = NoMemoryFound
    /\ (web.handler = "topic_facts" /\ web.pre.topics.exists
            /\ web.resp.status = 200) =>
          web.resp.value.facts =
              IF \E i \in 1..Len(web.pre.topics.memory) :
                    web.pre.topics.memory[i].topic = web.req
              THEN FactsOf(web.pre.topics, web.req)
              ELSE NoFactsFound

\* C19: no request or event handled by this code changes the topic memory;
\* it changes only by the external agent.  GET /topics and GET
\* /topics/<name> answer from it as it is: the empty list or "No memory
\* found." when the file is absent, "No facts found for this topic." for a
\* topic it does not hold.
C19_TopicMemoryReadOnly ==
    [][/\ (web'.handler # "none" \/ handlers' # handlers) => topics' = topics
       /\ TopicAnswers']_vars

C19_Witness ==
    /\ web.handler = "topic_facts"
    /\ web.pre.topics.exists
    /\ topics = web.pre.topics
    /\ web.resp.status = 200
    /\ web.resp.value.facts = <<"f">>

\* the input of the turn a handler began
InputOf(call) ==
    IF call.handler = "upload"
    THEN UploadInstruction(StoredPath(call.clock, call.req.filename))
    ELSE ArgsGet(call.req.d, "data", Str(<<>>))

\* C20 as stated: when a turn fails with an exception, the process-wide
\* thread is exactly what it was before the turn.
C20_FailedTurnLeavesThread ==
    (web.handler \in {"upload", "user_query"} /\ web.exc # "none") =>
        thread = web.pre.thread

\* C20 amended: process_user_query writes the input of the turn into the
\* record its caller holds (line 65), and changes nothing else of it.  The
\* step in which a handler begins a turn changes the process-wide thread
\* in user_input only, which then holds the input of the turn; the step in
\* which a turn fails with an exception leaves the thread as it is; a
\* request that begins no turn leaves the thread as it was; and the thread
\* changes in no other step than these and the one in which a handler
\* stores the record its turn returned.
C20_FailedTurnKeepsAllButInput ==
    [][/\ \A h \in Handlers :
            /\ (handlers.at[h].pc = "idle" /\ handlers'.at[h].pc = "turn") =>
                  thread' = [thread EXCEPT
                                !.user_input = InputOf(handlers'.at[h].call)]
            /\ (handlers.at[h].pc \notin {"idle", "store"}
                    /\ handlers'.at[h].pc = "idle") =>
                  web'.exc # "none" /\ thread' = thread
            /\ (handlers.at[h].pc = "store" /\ handlers'.at[h].pc = "idle") =>
                  thread' = handlers.at[h].obj
       /\ (web'.handler \in {"upload", "user_query"} /\ web'.turns = 0) =>
             thread' = thread
       /\ thread' # thread =>
             \E h \in Handlers :
                 \/ handlers.at[h].pc = "idle" /\ handlers'.at[h].pc = "turn"
                 \/ handlers.at[h].pc = "store" /\ handlers'.at[h].pc = "idle"]_vars

C20_Witness ==
    /\ web.handler = "user_query"
    /\ web.exc # "none"
    /\ web.pre.thread.user_input = None
    /\ thread.user_input = Str(<<"q">>)
    /\ thread.num_input = web.pre.thread.num_input

----------------------------------------------------------------------------
(* Properties of the handlers that run at once *)

AllReturned == \A h \in Handlers : handlers.at[h].pc = "idle"

\* C21: the handlers' read of knowledge_thread, turn and write-back never
\* overlap, so no turn's update is lost: once every handler has returned,
\* the process-wide thread counts every turn that returned a thread.
C21_NoTurnLost == AllReturned => thread.num_input = handlers.returned

----------------------------------------------------------------------------
(* Properties of ingestion as a whole *)

\* an ingestion that returned an "Error:" string has persisted neither the
\* store nor the registry
ErrorLeavesStoreAndRegistry ==
    (last.tool = "add" /\ StartsWithError(last.out.res)) =>
        Events(last.out.trace) \cap {"vs_save", "registry"} = {}

\* while no ingestion is under way, every document with chunks in the store
\* has an entry in the registry
ChunksHaveEntries ==
    Ingesting = {} =>
    \A i \in 1..Len(vstore.chunks) :
        \E j \in 1..Len(registry.documents) :
            registry.documents[j].file_path = vstore.chunks[i].src

\* C22: ingestion is all-or-nothing: an "Error:" result leaves the
\* persisted vector store and the registry exactly as before the call, and
\* every document whose chunks are in the store has a registry entry.
C22_IngestionAllOrNothing == ErrorLeavesStoreAndRegistry /\ ChunksHaveEntries

----------------------------------------------------------------------------
(* Properties of the web interface over the ingestion tool *)

UploadSucceeded == web.handler = "upload" /\ web.resp.key = "success"

\* the ingestion tool ran on the stored file and returned its success
\* message
IngestedBy(path) ==
    /\ last.tool = "add"
    /\ last.args = [k \in {"file_path"} |-> Str(path)]
    /\ IsAddSuccess(last.out.res)

HasEntry(reg, path) ==
    \E j \in 1..Len(reg.documents) : reg.documents[j].file_path = path

\* C23: POST /upload answers success only if the document was ingested:
\* the ingestion tool ran on the stored file without returning an
\* "Error:" string, and the registry has an entry for the stored file.
C23_SuccessMeansIngested ==
    UploadSucceeded =>
        /\ IngestedBy(web.resp.value.filepath)
        /\ HasEntry(registry, web.resp.value.filepath)

IsAgentResponse(m) == m.event = "agent_response"

AgentResponses == SelectSeq(web.emits, IsAgentResponse)

MappingQuery == web.handler = "user_query" /\ web.req.mapping

\* what C24 says of an event that has been answered
OneAgentResponse ==
    /\ Len(AgentResponses) = 1
    /\ IF Falsy(DataGiven)
       THEN /\ AgentResponses[1].lit = "Error: Empty query received."
            /\ web.turns = 0
       ELSE /\ web.turns = 1
            /\ IF web.exc # "none"
               THEN /\ AgentResponses[1].lit = "Error processing query: "
                    /\ AgentResponses[1].text = <<web.exc>>
               ELSE IF thread.last_chat_response \in {None, Str(<<>>)}
               THEN AgentResponses[1].lit = "No response from agent."
               ELSE /\ AgentResponses[1].lit = ""
                    /\ AgentResponses[1].text = thread.last_chat_response.s

\* C24 as stated: a user_query event whose payload is a mapping results in
\* exactly one agent_response on every path: the empty-query error with no
\* agent call when the data is empty or missing, the agent's text or "No
\* response from agent." after a turn that returned, "Error processing
\* query: ..." after a turn that raised.
C24_OneAgentResponse == MappingQuery => OneAgentResponse

\* C24 amended: a user_query event whose payload is a mapping results in
\* exactly one agent_response once its handler has returned: the
\* empty-query error with no agent call, the agent's text or "No response
\* from agent." after a turn that returned, "Error processing query: ..."
\* after a turn that raised an Exception.  An event whose turn is under
\* way has none, and has none for good when the process exits before the
\* turn returns; an event whose turn raised what is no Exception has none,
\* the exception leaves the handler.
C24_OneAgentResponseOnceReturned ==
    /\ \A h \in Handlers :
          QueryUnderWay(h) =>
              SelectSeq(handlers.at[h].call.emits, IsAgentResponse) = <<>>
    /\ MappingQuery =>
          IF web.resp.kind = "raise"
          THEN /\ AgentResponses = <<>>
               /\ web.turns = 1
               /\ ~CaughtAsException(web.exc)
          ELSE OneAgentResponse

\* an event whose turn returned without a response has been answered
\* once, while the turn of another event is under way
C24_Witness ==
    /\ MappingQuery
    /\ ~Falsy(DataGiven)
    /\ web.exc = "none"
    /\ Len(AgentResponses) = 1
    /\ AgentResponses[1].lit = "No response from agent."
    /\ \E h \in Handlers : QueryUnderWay(h) /\ handlers.at[h].pc = "turn"

\* the process has exited while the turn of an event was under way: the
\* event has its echo and no agent_response
ExitedDuringTurn ==
    /\ ~proc.running
    /\ \E h \in Handlers :
          /\ QueryUnderWay(h)
          /\ handlers.at[h].pc = "turn"
          /\ Len(handlers.at[h].call.emits) = 1

\* C25: once the agent session has been closed, by GET /shutdown or by the
\* exit hook, no operation is invoked on it: no turn is forwarded to it
\* and close is not called on it again.
C25_ClosedIsFinal == ~proc.late

\* GET /stats counts the entries of the registry and the topics of the
\* memory it met, 0 for a file that does not exist, and GET /documents
\* answers an empty list without a registry
StatsAgree ==
    /\ (web.handler = "stats" /\ web.resp.status = 200) =>
            /\ web.resp.value.document_count = Len(registry.documents)
            /\ web.resp.value.topic_count = Len(web.pre.topics.memory)
            /\ ~registry.exists => web.resp.value.document_count = 0
            /\ ~web.pre.topics.exists => web.resp.value.topic_count = 0
    /\ (web.handler = "documents" /\ ~registry.exists) =>
            web.resp = Json("documents", <<>>)

\* this step is a call of the ingestion tool that returned its success
\* message
IngestionSucceeds ==
    /\ last' # last
    /\ last'.tool = "add"
    /\ IsAddSuccess(last'.out.res)

\* the registry has one entry for each ingestion that returned success
EntryPerSuccess ==
    Len(registry'.documents) =
        Len(registry.documents) + (IF IngestionSucceeds THEN 1 ELSE 0)

\* C26: after any sequence of ingestions GET /stats reports the number of
\* registry entries, which is the number of ingestion calls that returned
\* the success message, and the number of topic keys; both are 0 without
\* the file, and GET /documents then answers {documents: []}.
C26_StatsCountIngestions == [][EntryPerSuccess /\ StatsAgree']_vars

\* in this step the handler stores the file of an upload that passed the
\* checks, under the path StoredAt
Stores(h) ==
    handlers.at[h].pc = "idle" /\ handlers'.at[h].call.handler = "upload"

StoredAt(h) ==
    StoredPath(handlers'.at[h].call.clock, handlers'.at[h].call.req.filename)

\* C27: every accepted upload is stored under a path that ends in ".pdf",
\* which the ingestion tool's suffix check accepts, and that no earlier
\* upload was stored under, so no upload overwrites the file of another.
C27_StoredPathsPdfAndDistinct ==
    [][\A h \in Handlers :
          Stores(h) =>
            /\ HasPdfSuffix(StoredAt(h))
            /\ StoredAt(h) \in files'
            /\ StoredAt(h) \notin files]_vars

\* the two halves by themselves
StoredPathsPdf ==
    [][\A h \in Handlers : Stores(h) => HasPdfSuffix(StoredAt(h))]_vars

StoredPathsDistinct ==
    [][\A h \in Handlers : Stores(h) => StoredAt(h) \notin files]_vars

====
